---- MODULE Spec2Model ----
(***************************************************************************)
(* The in-memory PFS metadata driver of src/pfs/drive/driver.go: the four  *)
(* diffMap views (started, finished, leaves, branches), the commit and     *)
(* file operations over them, and the block store they mirror to.          *)
(*                                                                         *)
(* Pointers.  The Go views share *pfs.DiffInfo pointers.  A DiffInfo is    *)
(* mutated only through started (PutFile, FinishCommit) and is moved, not  *)
(* copied, to finished, so started and finished hold the records by value. *)
(* leaves and branches are read only through DiffInfo.Diff (the commit id  *)
(* of a tip, the key of a leaf), which never changes after construction,   *)
(* so they hold the Header of the DiffInfo that was inserted.              *)
(***************************************************************************)
EXTENDS Integers, Sequences, FiniteSets, TLC

VARIABLES
    started,    \* driver.started : repo -> shard -> commit id -> DiffInfo
    finished,   \* driver.finished: repo -> shard -> commit id -> DiffInfo
    leaves,     \* driver.leaves  : repo -> shard -> commit id -> Header
    branches,   \* driver.branches: repo -> shard -> branch    -> Header
    lock,       \* driver.lock: "free", "w" / "r" while a call in flight holds it for
                \* writing / reading, or "held" by a handler that never releases it
    panicked,   \* a handler dereferenced a nil *DiffInfo: the process is gone
    blockDiffs, \* the block store's diff records (CreateDiff / DeleteDiff / ListDiff)
    puts,       \* PutFile calls between their block upload and the write lock
    calls,      \* number of handler steps the run may still take
    last,       \* the last handler step: its arguments and what it returned
    inflight,   \* the handler calls followed statement by statement: a writer, a reader
    prior       \* the views of the driver the running one replaced, and the shards re-added

vars == <<started, finished, leaves, branches, lock, panicked, blockDiffs, puts, calls, last,
          inflight, prior>>

views == <<started, finished, leaves, branches>>

(***************************************************************************)
(* Bounds and input sets                                                   *)
(***************************************************************************)
MaxCalls == 4
MaxFileCalls == 6
MaxLineageCalls == 8
MaxPuts == 2
MaxRefs == 3

Repos == {"r"}
Shards == {0, 1}
CommitIDs == {"c1", "c2"}
BranchNames == {"b"}
Timestamps == {"t1"}

\* A nil *pfs.Commit / nil timestamp, as opposed to a commit whose ID is "".
Nil == "nil"

\* An absent map entry.
EmptyMap == [x \in {} |-> x]

\* Orders in which `for shard := range shards` can visit a non-empty shard set.
RECURSIVE Orders(_)
Orders(S) ==
    IF S = {} THEN {<<>>}
    ELSE UNION {{<<x>> \o o : o \in Orders(S \ {x})} : x \in S}

\* The shard sets the callers pass: shard 0 alone, or both shards.
ShardSets == {{0}, Shards}

ShardOrders == UNION {Orders(S) : S \in ShardSets}

Range(f) == {f[x] : x \in DOMAIN f}

(***************************************************************************)
(* Paths: a path is the sequence of its elements; "." is the empty         *)
(* sequence, a leading "/" element makes the path absolute.                *)
(***************************************************************************)
Root == <<>>

IsDot(e) == e = "."

\* path.Clean, on paths without ".." elements: drops the "." elements.
Clean(p) == SelectSeq(p, LAMBDA e : ~IsDot(e))

\* path.Dir: all but the last element, cleaned; Dir(".") = "." and Dir("/") = "/".
Dir(p) ==
    IF p = Root \/ p = <<"/">> THEN p
    ELSE Clean(SubSeq(p, 1, Len(p) - 1))

(***************************************************************************)
(* diffMap (driver.go:765-814)                                             *)
(***************************************************************************)
NewDiff(repo, id, shard) == [Repo |-> repo, ID |-> id, Shard |-> shard]

Header(diffInfo) == [Diff |-> diffInfo.Diff, Branch |-> diffInfo.Branch]

has(d, diff) ==
    /\ diff.Repo \in DOMAIN d
    /\ diff.Shard \in DOMAIN d[diff.Repo]
    /\ diff.ID \in DOMAIN d[diff.Repo][diff.Shard]

\* diffMap.get; the ok result is has(d, diff).
get(d, diff) == d[diff.Repo][diff.Shard][diff.ID]

commitMapOf(d, repo, shard) ==
    IF repo \in DOMAIN d /\ shard \in DOMAIN d[repo] THEN d[repo][shard] ELSE EmptyMap

put(d, repo, shard, key, val) ==
    [d EXCEPT ![repo] =
        (shard :> ((key :> val) @@ commitMapOf(d, repo, shard))) @@ d[repo]]

\* diffMap.insert: [err, map].  The duplicate test is on the commit id even when
\* the entry is written under the branch name.
insert(d, entry, branch) ==
    LET diff == entry.Diff IN
    IF diff.Repo \notin DOMAIN d
    THEN [err |-> "repo not found", map |-> d]
    ELSE IF diff.ID \in DOMAIN commitMapOf(d, diff.Repo, diff.Shard)
    THEN [err |-> "commit already exists", map |-> d]
    ELSE [err |-> "",
          map |-> put(d, diff.Repo, diff.Shard,
                      IF branch THEN entry.Branch ELSE diff.ID, entry)]

\* diffMap.pop: the map without the commit-id key (the popped entry is get(d, diff)).
pop(d, diff) ==
    IF diff.Repo \in DOMAIN d /\ diff.Shard \in DOMAIN d[diff.Repo]
    THEN [d EXCEPT ![diff.Repo][diff.Shard] =
             [k \in (DOMAIN @) \ {diff.ID} |-> @[k]]]
    ELSE d

\* delete(d, repo.Name)
deleteRepo(d, repo) == [r \in (DOMAIN d) \ {repo} |-> d[r]]

\* delete(shardMap, shard) for every repo of d
deleteShard(d, shard) ==
    [r \in DOMAIN d |-> [s \in (DOMAIN d[r]) \ {shard} |-> d[r][s]]]

\* driver.createRepoDiffMaps, for one view
createRepoDiffMap(d, repo) == (repo :> EmptyMap) @@ d

\* driver.canonicalCommit: a branch name resolves to the id of its tip.
canonicalCommit(br, repo, id, shard) ==
    IF has(br, NewDiff(repo, id, shard))
    THEN get(br, NewDiff(repo, id, shard)).Diff.ID
    ELSE id

\* driver.insertLeaf: [err, map]
insertLeaf(lv, leaf) ==
    LET ins == insert(lv, Header(leaf), FALSE)
        parentDiff == NewDiff(leaf.Diff.Repo, leaf.ParentCommit, leaf.Diff.Shard)
    IN  IF ins.err # "" THEN ins
        ELSE IF leaf.ParentCommit # Nil /\ has(ins.map, parentDiff)
        THEN [err |-> "", map |-> pop(ins.map, parentDiff)]
        ELSE ins

(***************************************************************************)
(* Block store (external; the driver only sees its RPC surface)            *)
(***************************************************************************)
\* CreateDiff: records the DiffInfo under its Diff, replacing an older record.
CreateDiff(store, diffInfo) == {x \in store : x.Diff # diffInfo.Diff} \cup {diffInfo}

\* DeleteDiff: drops the record of the Diff.
DeleteDiff(store, diff) == {x \in store : x.Diff # diff}

\* ListDiff: the records of one shard (streamed in no particular order).
ListDiff(store, shard) == {x \in store : x.Diff.Shard = shard}

RECURSIVE CreateDiffs(_, _)
CreateDiffs(store, diffInfos) ==
    IF diffInfos = {} THEN store
    ELSE LET x == CHOOSE y \in diffInfos : TRUE
         IN  CreateDiffs(CreateDiff(store, x), diffInfos \ {x})

RECURSIVE DeleteDiffs(_, _)
DeleteDiffs(store, diffs) ==
    IF diffs = {} THEN store
    ELSE LET x == CHOOSE y \in diffs : TRUE
         IN  DeleteDiffs(DeleteDiff(store, x), diffs \ {x})

(***************************************************************************)
(* Handler bookkeeping                                                     *)
(***************************************************************************)
Running == ~panicked /\ calls > 0

\* PutFile calls whose target diff is no longer in started' forget what they saw
\* being appended to it.
Idle == [idle |-> TRUE]

\* No call of that kind is in flight.
NoCall == [op |-> "none", phase |-> "none"]

\* No driver came before this one.
NoPrior == [live |-> FALSE, views |-> <<EmptyMap, EmptyMap, EmptyMap, EmptyMap>>, added |-> {}]

Target(call) == NewDiff(call.repo, call.commit, call.shard)

Settle(ps, st) ==
    [i \in DOMAIN ps |->
        IF ps[i].idle \/ has(st, Target(ps[i])) THEN ps[i]
        ELSE [ps[i] EXCEPT !.during = <<>>]]

(***************************************************************************)
(* newDriver (driver.go:27-38): the process is replaced by a fresh driver   *)
(* with four empty views; the block store keeps its records.               *)
(***************************************************************************)
newDriver ==
    /\ calls > 0
    /\ calls' = calls - 1
    /\ started' = EmptyMap
    /\ finished' = EmptyMap
    /\ leaves' = EmptyMap
    /\ branches' = EmptyMap
    /\ lock' = "free"
    /\ panicked' = FALSE
    /\ puts' = [i \in DOMAIN puts |-> Idle]
    /\ inflight' = [w |-> NoCall, r |-> NoCall]
    /\ last' = [op |-> "newDriver", err |-> ""]
    /\ prior' = [live |-> TRUE, views |-> views, added |-> {}]
    /\ UNCHANGED blockDiffs

\* A fan-out whose goroutines drop the error of a failed RPC.
loopErrDropped(diffInfos, sent) == ""

\* loopErr after wg.Wait(): the goroutines of a fan-out store the error of a
\* failed RPC if loopErr is still nil.  The unsynchronised test and store may
\* let one failure overwrite another, but every value stored is an error, so the
\* result is nil only when every RPC succeeded.  sent: the RPCs that succeeded.
loopErr(diffInfos, sent) == IF sent = diffInfos THEN "" ELSE "rpc error"

(***************************************************************************)
(* CreateRepo (driver.go:57-92)                                            *)
(***************************************************************************)
RepoDiffInfo(repo, shard, created) ==
    [Diff |-> NewDiff(repo, "", shard), Started |-> Nil, Finished |-> created,
     ParentCommit |-> Nil, Branch |-> "", SizeBytes |-> 0, Appends |-> EmptyMap]

RECURSIVE InsertAll(_, _)
InsertAll(d, diffInfos) ==
    IF diffInfos = {} THEN d
    ELSE LET x == CHOOSE y \in diffInfos : TRUE
         IN  InsertAll(insert(d, x, FALSE).map, diffInfos \ {x})

CreateRepo(repo, created, shards, failed) ==
    /\ Running /\ lock = "free"
    /\ calls' = calls - 1
    /\ IF repo \in DOMAIN finished
       THEN /\ UNCHANGED <<started, finished, leaves, branches, blockDiffs>>
            /\ last' = [op |-> "CreateRepo", err |-> "repo exists"]
       ELSE LET diffInfos == {RepoDiffInfo(repo, s, created) : s \in shards}
                sent == {x \in diffInfos : x.Diff.Shard \notin failed}
            IN  /\ started' = createRepoDiffMap(started, repo)
                /\ leaves' = createRepoDiffMap(leaves, repo)
                /\ branches' = createRepoDiffMap(branches, repo)
                /\ finished' = InsertAll(createRepoDiffMap(finished, repo), diffInfos)
                /\ blockDiffs' = CreateDiffs(blockDiffs, sent)
                /\ last' = [op |-> "CreateRepo", err |-> loopErr(diffInfos, sent)]
    /\ puts' = Settle(puts, started')
    /\ UNCHANGED <<lock, panicked>>
    /\ UNCHANGED <<inflight, prior>>

(***************************************************************************)
(* DeleteRepo (driver.go:128-161)                                          *)
(***************************************************************************)
DeleteRepo(repo, shards, failed) ==
    /\ Running /\ lock = "free"
    /\ calls' = calls - 1
    /\ LET diffInfos == UNION {Range(commitMapOf(started, repo, s)) : s \in shards}
           sent == {x \in diffInfos : x.Diff.Shard \notin failed}
       IN  /\ started' = deleteRepo(started, repo)
           /\ finished' = deleteRepo(finished, repo)
           /\ leaves' = deleteRepo(leaves, repo)
           /\ blockDiffs' = DeleteDiffs(blockDiffs, {x.Diff : x \in sent})
           /\ last' = [op |-> "DeleteRepo", err |-> loopErr(diffInfos, sent)]
    /\ puts' = Settle(puts, started')
    /\ UNCHANGED <<branches, lock, panicked>>
    /\ UNCHANGED <<inflight, prior>>

(***************************************************************************)
(* StartCommit (driver.go:163-213)                                         *)
(***************************************************************************)
NewDiffInfo(repo, commitID, shard, ts, parent, branch) ==
    [Diff |-> NewDiff(repo, commitID, shard), Started |-> ts, Finished |-> Nil,
     ParentCommit |-> parent, Branch |-> branch, SizeBytes |-> 0, Appends |-> EmptyMap]

\* A StartCommit that takes the parent from its argument alone.
parentOfArgument(br, repo, parentID, branch, shard) ==
    IF parentID # "" THEN parentID ELSE Nil

\* The parent StartCommit gives the new diff: the branch tip if there is one,
\* else the parentID argument.
parentOf(br, repo, parentID, branch, shard) ==
    IF branch # "" /\ has(br, NewDiff(repo, branch, shard))
    THEN get(br, NewDiff(repo, branch, shard)).Diff.ID
    ELSE IF parentID # "" THEN parentID ELSE Nil

\* A StartCommit that does not look the tip up in finished.
tipFinishedUnchecked(fin, tip) == TRUE

\* StartCommit's test that the branch tip is a finished commit.
tipFinished(fin, tip) == has(fin, tip)

\* One iteration of the loop over shards: st is [err, started, leaves, branches].
StartCommitShard(st, repo, commitID, parentID, branch, ts, shard) ==
    LET branchDiff == NewDiff(repo, branch, shard)
        hasTip == branch # "" /\ has(st.branches, branchDiff)
        tip == get(st.branches, branchDiff).Diff
    IN
    IF hasTip /\ parentID # "" /\ tip.ID # parentID
    THEN [st EXCEPT !.err = "branch already exists"]
    ELSE IF hasTip /\ ~tipFinished(finished, tip)
    THEN [st EXCEPT !.err = "branch has unfinished commit"]
    ELSE
    LET diffInfo == NewDiffInfo(repo, commitID, shard, ts,
                        parentOf(st.branches, repo, parentID, branch, shard), branch)
        br1 == IF hasTip THEN pop(st.branches, branchDiff) ELSE st.branches
        insB == IF branch # "" THEN insert(br1, Header(diffInfo), TRUE)
                ELSE [err |-> "", map |-> br1]
        insS == insert(st.started, diffInfo, FALSE)
        insL == insertLeaf(st.leaves, diffInfo)
    IN
    IF insB.err # "" THEN [st EXCEPT !.err = insB.err, !.branches = br1]
    ELSE IF insS.err # "" THEN [st EXCEPT !.err = insS.err, !.branches = insB.map]
    ELSE IF insL.err # ""
    THEN [st EXCEPT !.err = insL.err, !.branches = insB.map, !.started = insS.map]
    ELSE [err |-> "", branches |-> insB.map, started |-> insS.map, leaves |-> insL.map]

RECURSIVE StartCommitLoop(_, _, _, _, _, _, _)
StartCommitLoop(st, repo, commitID, parentID, branch, ts, order) ==
    IF order = <<>> \/ st.err # "" THEN st
    ELSE StartCommitLoop(
            StartCommitShard(st, repo, commitID, parentID, branch, ts, Head(order)),
            repo, commitID, parentID, branch, ts, Tail(order))

StartCommit(repo, commitID, parentID, branch, ts, order) ==
    /\ Running /\ lock = "free"
    /\ calls' = calls - 1
    /\ LET st == StartCommitLoop(
                    [err |-> "", started |-> started, leaves |-> leaves, branches |-> branches],
                    repo, commitID, parentID, branch, ts, order)
       IN  /\ started' = st.started
           /\ leaves' = st.leaves
           /\ branches' = st.branches
           /\ last' = [op |-> "StartCommit", repo |-> repo, id |-> commitID,
                       parent |-> parentID, branch |-> branch, order |-> order,
                       err |-> st.err]
    /\ puts' = Settle(puts, started')
    /\ UNCHANGED <<finished, lock, panicked, blockDiffs>>
    /\ UNCHANGED <<inflight, prior>>

(***************************************************************************)
(* FinishCommit (driver.go:215-258)                                        *)
(***************************************************************************)
\* One iteration of the locked loop: st is [err, started, finished, commit,
\* diffInfos]; commit is the handle as canonicalised so far.
FinishCommitShard(st, repo, ts, shard) ==
    LET commit == canonicalCommit(branches, repo, st.commit, shard)
        diff == NewDiff(repo, commit, shard)
    IN
    IF ~has(st.started, diff)
    THEN [st EXCEPT !.err = "commit not found", !.commit = commit]
    ELSE
    LET diffInfo == [get(st.started, diff) EXCEPT !.Finished = ts]
        ins == insert(st.finished, diffInfo, FALSE)
    IN  [err |-> ins.err, started |-> pop(st.started, diff), finished |-> ins.map,
         commit |-> commit, diffInfos |-> st.diffInfos \cup {diffInfo}]

RECURSIVE FinishCommitLoop(_, _, _, _)
FinishCommitLoop(st, repo, ts, order) ==
    IF order = <<>> \/ st.err # "" THEN st
    ELSE FinishCommitLoop(FinishCommitShard(st, repo, ts, Head(order)),
                          repo, ts, Tail(order))

FinishCommit(repo, commit, ts, order, failed) ==
    /\ Running /\ lock = "free"
    /\ calls' = calls - 1
    /\ LET st == FinishCommitLoop(
                    [err |-> "", started |-> started, finished |-> finished,
                     commit |-> commit, diffInfos |-> {}], repo, ts, order)
           sent == {x \in st.diffInfos : x.Diff.Shard \notin failed}
       IN  /\ started' = st.started
           /\ finished' = st.finished
           /\ blockDiffs' = IF st.err # "" THEN blockDiffs ELSE CreateDiffs(blockDiffs, sent)
           /\ last' = [op |-> "FinishCommit",
                       err |-> IF st.err # "" THEN st.err
                               ELSE loopErr(st.diffInfos, sent)]
    /\ puts' = Settle(puts, started')
    /\ UNCHANGED <<leaves, branches, lock, panicked>>
    /\ UNCHANGED <<inflight, prior>>

(***************************************************************************)
(* DeleteShard (driver.go:511-521): the deferred d.lock.Lock() blocks on   *)
(* the lock the handler itself holds, so the call never returns.           *)
(***************************************************************************)
DeleteShard(shard) ==
    /\ Running /\ lock = "free"
    /\ calls' = calls - 1
    /\ finished' = deleteShard(finished, shard)
    /\ started' = deleteShard(started, shard)
    /\ lock' = "held"
    /\ last' = [op |-> "DeleteShard", err |-> "blocked"]
    /\ puts' = Settle(puts, started')
    /\ UNCHANGED <<leaves, branches, panicked, blockDiffs>>
    /\ UNCHANGED <<inflight, prior>>

(***************************************************************************)
(* AddShard (driver.go:442-509).  An empty stream returns at once.  For    *)
(* the first streamed DiffInfo the locked closure runs, and its deferred   *)
(* d.lock.Lock() blocks for ever (the insert into the local leaves map,    *)
(* which has no repo layer, has failed by then).                           *)
(***************************************************************************)
AddShard(shard, diffInfo) ==
    /\ Running /\ lock = "free"
    /\ diffInfo \in ListDiff(blockDiffs, shard)
    /\ calls' = calls - 1
    /\ LET repo == diffInfo.Diff.Repo
           fresh == repo \notin DOMAIN finished
           fin == IF fresh THEN createRepoDiffMap(finished, repo) ELSE finished
       IN  /\ finished' = insert(fin, diffInfo, FALSE).map
           /\ started' = IF fresh THEN createRepoDiffMap(started, repo) ELSE started
           /\ leaves' = IF fresh THEN createRepoDiffMap(leaves, repo) ELSE leaves
           /\ branches' = IF fresh THEN createRepoDiffMap(branches, repo) ELSE branches
    /\ lock' = "held"
    /\ last' = [op |-> "AddShard", shard |-> shard, err |-> "blocked"]
    /\ puts' = Settle(puts, started')
    /\ prior' = [prior EXCEPT !.added = @ \cup {shard}]
    /\ UNCHANGED <<panicked, blockDiffs, inflight>>

AddShardEmpty(shard) ==
    /\ Running
    /\ ListDiff(blockDiffs, shard) = {}
    /\ calls' = calls - 1
    /\ last' = [op |-> "AddShard", shard |-> shard, err |-> ""]
    /\ prior' = [prior EXCEPT !.added = @ \cup {shard}]
    /\ UNCHANGED <<started, finished, leaves, branches, lock, panicked, blockDiffs, puts,
                   inflight>>

(***************************************************************************)
(* PutFile (driver.go:328-379)                                             *)
(***************************************************************************)
NewAppend == [BlockRefs |-> <<>>, Children |-> {}, LastRef |-> Nil]

NewBlockRef(hash, lower, upper) == [Block |-> hash, Lower |-> lower, Upper |-> upper]

\* A size taken after the loop over the refs: only the last ref is counted.
SizeOfLast(blockRefs) ==
    IF blockRefs = <<>> THEN 0
    ELSE blockRefs[Len(blockRefs)].Upper - blockRefs[Len(blockRefs)].Lower

RECURSIVE SizeOf(_)
SizeOf(blockRefs) ==
    IF blockRefs = <<>> THEN 0
    ELSE (Head(blockRefs).Upper - Head(blockRefs).Lower) + SizeOf(Tail(blockRefs))

\* addDirs: [hang, appends].  The loop ends at dirPath = "."; on an absolute
\* path Dir reaches "/" and stays there, and the loop never ends.
RECURSIVE addDirsLoop(_, _, _)
addDirsLoop(appends, childPath, dirPath) ==
    LET old == IF dirPath \in DOMAIN appends THEN appends[dirPath] ELSE NewAppend
        new == [old EXCEPT !.Children = @ \cup {childPath}]
        appends1 == (dirPath :> new) @@ appends
    IN  IF dirPath = Root THEN [hang |-> FALSE, appends |-> appends1]
        ELSE IF childPath = dirPath /\ Dir(dirPath) = dirPath
        THEN [hang |-> TRUE, appends |-> appends1]
        ELSE addDirsLoop(appends1, dirPath, Dir(dirPath))

addDirs(diffInfo, childPath) == addDirsLoop(diffInfo.Appends, childPath, Dir(childPath))

\* driver.lastRef: [res, commit].  A commit missing from finished gives a nil
\* *DiffInfo whose Appends field is then read (a panic); a parent cycle that
\* never meets the path keeps the loop running for ever.
RECURSIVE lastRefLoop(_, _, _, _, _, _)
lastRefLoop(fin, repo, commit, path, shard, seen) ==
    LET diff == NewDiff(repo, commit, shard) IN
    IF commit = Nil THEN [res |-> "ok", commit |-> Nil]
    ELSE IF ~has(fin, diff) THEN [res |-> "panic", commit |-> commit]
    ELSE IF Clean(path) \in DOMAIN get(fin, diff).Appends
    THEN [res |-> "ok", commit |-> commit]
    ELSE IF commit \in seen THEN [res |-> "hang", commit |-> commit]
    ELSE lastRefLoop(fin, repo, get(fin, diff).ParentCommit, path, shard,
                     seen \cup {commit})

lastRef(fin, repo, commit, path, shard) == lastRefLoop(fin, repo, commit, path, shard, {})

\* An assignment where the append belongs: the refs already held are lost.
appendRefsOverwrite(held, blockRefs) == blockRefs

\* _append.BlockRefs = append(_append.BlockRefs, blockRefs.BlockRef...)
appendRefs(held, blockRefs) == held \o blockRefs

\* The locked tail of PutFile on the diff it found in started:
\* [res, diffInfo], res one of "ok", "hang", "panic".
putAppend(diffInfo, fin, path, blockRefs) ==
    LET dirs == addDirs(diffInfo, path)
        key == Clean(path)
        isNew == key \notin DOMAIN dirs.appends
        ref == IF isNew /\ diffInfo.ParentCommit # Nil
               THEN lastRef(fin, diffInfo.Diff.Repo, diffInfo.ParentCommit, path,
                            diffInfo.Diff.Shard)
               ELSE [res |-> "ok", commit |-> Nil]
        old == IF isNew THEN [NewAppend EXCEPT !.LastRef = ref.commit]
               ELSE dirs.appends[key]
        new == [old EXCEPT !.BlockRefs = appendRefs(@, blockRefs)]
    IN  IF dirs.hang
        THEN [res |-> "hang", diffInfo |-> [diffInfo EXCEPT !.Appends = dirs.appends]]
        ELSE IF ref.res # "ok"
        THEN [res |-> ref.res, diffInfo |-> [diffInfo EXCEPT !.Appends = dirs.appends]]
        ELSE [res |-> "ok",
              diffInfo |-> [diffInfo EXCEPT !.Appends = (key :> new) @@ dirs.appends,
                                            !.SizeBytes = @ + SizeOf(blockRefs)]]

RefsAt(st, diff, path) ==
    IF has(st, diff) /\ Clean(path) \in DOMAIN get(st, diff).Appends
    THEN get(st, diff).Appends[Clean(path)].BlockRefs
    ELSE <<>>

FreeSlots == {i \in DOMAIN puts : puts[i].idle}

\* PutFile up to the block upload: the commit handle is canonicalised (outside the
\* lock), the diff is looked up in started under the read lock, the bytes go to
\* the block store.
PutFile(repo, commit, shard, path, blockRefs, rpcOk) ==
    /\ Running /\ lock = "free"
    /\ FreeSlots # {}
    /\ calls' = calls - 1
    /\ LET id == canonicalCommit(branches, repo, commit, shard)
           diff == NewDiff(repo, id, shard)
           slot == CHOOSE i \in FreeSlots : \A j \in FreeSlots : i <= j
           err == IF ~has(started, diff) THEN "commit not found"
                  ELSE IF ~rpcOk THEN "rpc error" ELSE ""
       IN  /\ Len(RefsAt(started, diff, path)) + Len(blockRefs) <= MaxRefs
           /\ puts' = IF err # "" THEN puts
                      ELSE [puts EXCEPT ![slot] =
                               [idle |-> FALSE, repo |-> repo, commit |-> id,
                                shard |-> shard, path |-> path, refs |-> blockRefs,
                                during |-> <<>>]]
           /\ last' = [op |-> "PutFile", step |-> "upload", repo |-> repo, id |-> id,
                       shard |-> shard, path |-> path, err |-> err]
    /\ UNCHANGED <<started, finished, leaves, branches, lock, panicked, blockDiffs>>
    /\ UNCHANGED <<inflight, prior>>

\* What the other calls in flight on the same diff and path see appended.
Seen(ps, slot) ==
    [i \in DOMAIN ps |->
        IF i = slot THEN Idle
        ELSE IF ~ps[i].idle /\ Target(ps[i]) = Target(ps[slot])
                /\ Clean(ps[i].path) = Clean(ps[slot].path)
        THEN [ps[i] EXCEPT !.during = @ \o ps[slot].refs]
        ELSE ps[i]]

\* A PutFile that keeps the *DiffInfo it got before the upload: the pointer
\* follows the diff into finished.
openViewStale(st, fin, diff) ==
    IF has(st, diff) THEN "started"
    ELSE IF has(fin, diff) THEN "finished"
    ELSE "none"

\* The view in which PutFile, holding the write lock again, finds the diff it
\* writes to: started, or none (the second d.started.get).
openView(st, fin, diff) == IF has(st, diff) THEN "started" ELSE "none"

\* PutFile from the write lock on.
PutFileApply(slot) ==
    /\ Running /\ lock = "free"
    /\ ~puts[slot].idle
    /\ calls' = calls - 1
    /\ LET call == puts[slot]
           diff == Target(call)
           view == openView(started, finished, diff)
           done == [op |-> "PutFile", step |-> "apply", repo |-> call.repo,
                    id |-> call.commit, shard |-> call.shard, path |-> call.path,
                    refs |-> call.refs, during |-> call.during, err |-> ""]
       IN  IF view = "none"
           THEN /\ last' = [done EXCEPT !.err = "commit not found"]
                /\ puts' = [puts EXCEPT ![slot] = Idle]
                /\ UNCHANGED <<started, finished, lock, panicked>>
           ELSE LET map == IF view = "started" THEN started ELSE finished
                    r == putAppend(get(map, diff), finished, call.path, call.refs)
                    written == [map EXCEPT ![diff.Repo][diff.Shard][diff.ID] = r.diffInfo]
                    st == IF view = "started" THEN written ELSE started
                    fin == IF view = "started" THEN finished ELSE written
                IN  /\ Len(RefsAt(map, diff, call.path)) + Len(call.refs) <= MaxRefs
                    /\ CASE r.res = "ok" ->
                              /\ started' = st /\ finished' = fin
                              /\ puts' = Seen(puts, slot)
                              /\ last' = done
                              /\ UNCHANGED <<lock, panicked>>
                         [] r.res = "hang" ->
                              /\ started' = st /\ finished' = fin
                              /\ lock' = "held"
                              /\ puts' = [puts EXCEPT ![slot] = Idle]
                              /\ last' = [done EXCEPT !.err = "blocked"]
                              /\ UNCHANGED panicked
                         [] r.res = "panic" ->
                              /\ panicked' = TRUE
                              /\ puts' = [puts EXCEPT ![slot] = Idle]
                              /\ last' = [done EXCEPT !.err = "panic"]
                              /\ UNCHANGED <<started, finished, lock>>
    /\ UNCHANGED <<leaves, branches, blockDiffs>>
    /\ UNCHANGED <<inflight, prior>>

(***************************************************************************)
(* inspectFile (driver.go:607-669) and InspectFile (driver.go:403-409)     *)
(***************************************************************************)
\* A filter shard, by the files and the blocks it selects.
NewShard(files, blocks) == [files |-> files, blocks |-> blocks]

\* pfs.FileInShard and pfs.BlockInShard.
FileInShard(filterShard, path) == Clean(path) \in filterShard.files

BlockInShard(filterShard, block) == block \in filterShard.blocks

\* filterBlockRefs (driver.go:597-605).
filterBlockRefs(filterShard, blockRefs) ==
    SelectSeq(blockRefs, LAMBDA blockRef : BlockInShard(filterShard, blockRef.Block))

\* getDiffInfo (driver.go:547-555): finished first, then started.
getDiffInfo(st, fin, diff) ==
    IF has(fin, diff) THEN [ok |-> TRUE, diffInfo |-> get(fin, diff)]
    ELSE IF has(st, diff) THEN [ok |-> TRUE, diffInfo |-> get(st, diff)]
    ELSE [ok |-> FALSE, diffInfo |-> Nil]

NewFile(repo, commit, path) == [Repo |-> repo, Commit |-> commit, Path |-> path]

\* &pfs.FileInfo{File: file}, with the blockRefs result beside it.  Children is
\* the content of the Children slice; lists holds the slice in each of the orders
\* in which the loops over the _append.Children maps can have filled it.
NewFileInfo ==
    [res |-> "ok", FileType |-> "NONE", SizeBytes |-> 0, Children |-> {},
     lists |-> {<<>>}, CommitModified |-> Nil, Modified |-> Nil, blockRefs |-> <<>>]

\* A walk that prepends nothing: the refs of the older commits are dropped.
prependRefsNewest(filtered, blockRefs) == IF blockRefs = <<>> THEN filtered ELSE blockRefs

\* blockRefs = append(filtered, blockRefs...)
prependRefs(filtered, blockRefs) == filtered \o blockRefs

\* One commit's children joined to those found so far: a child already listed
\* (from a newer commit) keeps its entry.
unionChildren(children, repo, commit, paths) ==
    children \cup {NewFile(repo, commit, child) :
                      child \in {c \in paths : \A f \in children : f.Path # c}}

\* The slices after one commit's children are appended in the order the map
\* yields them, for every such order.
appendChildren(lists, added) == {l \o o : l \in lists, o \in Orders(added)}

\* The loop of inspectFile; seen holds the commits visited, and a commit met a
\* second time means the walk follows a cycle and never ends.
RECURSIVE inspectFileLoop(_, _, _, _, _, _, _, _, _, _)
inspectFileLoop(st, fin, repo, commit, path, filterShard, shard, from, fileInfo, seen) ==
    IF commit = Nil \/ (from # Nil /\ commit = from)
    THEN IF fileInfo.FileType = "NONE" THEN [fileInfo EXCEPT !.res = "file not found"]
         ELSE fileInfo
    ELSE IF commit \in seen THEN [fileInfo EXCEPT !.res = "hang"]
    ELSE
    LET found == getDiffInfo(st, fin, NewDiff(repo, commit, shard))
        diffInfo == found.diffInfo
        key == Clean(path)
    IN
    IF ~found.ok THEN [fileInfo EXCEPT !.res = "diff not found"]
    ELSE IF key \notin DOMAIN diffInfo.Appends
    THEN inspectFileLoop(st, fin, repo, diffInfo.ParentCommit, path, filterShard, shard,
                         from, fileInfo, seen \cup {commit})
    ELSE
    LET append == diffInfo.Appends[key]
        filtered == filterBlockRefs(filterShard, append.BlockRefs)
        typed ==
            IF append.BlockRefs # <<>>
            THEN IF fileInfo.FileType = "DIR" THEN [fileInfo EXCEPT !.res = "mixed"]
                 ELSE IF fileInfo.FileType = "NONE" /\ ~FileInShard(filterShard, path)
                 THEN [fileInfo EXCEPT !.res = "file not found"]
                 ELSE [fileInfo EXCEPT !.FileType = "REGULAR",
                                       !.blockRefs = prependRefs(filtered, @),
                                       !.SizeBytes = @ + SizeOf(filtered)]
            ELSE IF append.Children # {}
            THEN IF fileInfo.FileType = "REGULAR" THEN [fileInfo EXCEPT !.res = "mixed"]
                 ELSE [fileInfo EXCEPT !.FileType = "DIR",
                                       !.Children = unionChildren(@, repo, commit,
                                                                  append.Children),
                                       !.lists = appendChildren(@,
                                           unionChildren(fileInfo.Children, repo, commit,
                                                         append.Children)
                                           \ fileInfo.Children)]
            ELSE fileInfo
        stamped ==
            IF typed.CommitModified = Nil
            THEN [typed EXCEPT !.CommitModified = commit, !.Modified = diffInfo.Finished]
            ELSE typed
    IN  IF typed.res # "ok" THEN typed
        ELSE inspectFileLoop(st, fin, repo, append.LastRef, path, filterShard, shard, from,
                             stamped, seen \cup {commit})

inspectFile(st, fin, repo, commit, path, filterShard, shard, from) ==
    inspectFileLoop(st, fin, repo, commit, path, filterShard, shard, from, NewFileInfo, {})

\* InspectFile: the walk under the read lock.  A walk that never ends keeps the
\* read lock, and no writer gets the lock again.  A read changes nothing in the
\* driver, so it does not count against the calls of the run.
InspectFile(repo, commit, path, filterShard, from, shard) ==
    /\ ~panicked /\ lock = "free"
    /\ LET id == canonicalCommit(branches, repo, commit, shard)
           fileInfo == inspectFile(started, finished, repo, id, path, filterShard, shard, from)
       IN  /\ \E children \in fileInfo.lists :
                 last' = [op |-> "InspectFile", repo |-> repo, id |-> id, path |-> path,
                          shard |-> shard, from |-> from, filterShard |-> filterShard,
                          fileInfo |-> fileInfo, children |-> children]
           /\ lock' = IF fileInfo.res = "hang" THEN "held" ELSE lock
    /\ UNCHANGED <<started, finished, leaves, branches, panicked, blockDiffs, puts, calls,
                   inflight, prior>>

(***************************************************************************)
(* The handlers statement by statement: where each takes and releases the  *)
(* driver lock, and where its block-store RPCs run.  One writer and one     *)
(* reader are followed at a time (inflight.w, inflight.r).  phase "loop":   *)
(* inside the loop over shards; phase "rpc": the fan-out is in flight.      *)
(***************************************************************************)
\* A writer that takes the lock for one shard at a time.
loopLockPerShard(todo) == "free"

\* The lock while StartCommit or FinishCommit is in its loop over the shards
\* still to do: d.lock.Lock() comes before the loop and the deferred Unlock after.
loopLock(todo) == "w"

\* CreateRepo (driver.go:57-92) up to wg.Wait(): d.lock.Lock() with a deferred
\* Unlock, the inserts, and the CreateDiff goroutines started.
CreateRepoLock(repo, created, shards) ==
    /\ Running /\ lock = "free" /\ inflight.w = NoCall
    /\ calls' = calls - 1
    /\ IF repo \in DOMAIN finished
       THEN /\ last' = [op |-> "CreateRepo", err |-> "repo exists"]
            /\ UNCHANGED <<started, finished, leaves, branches, lock, inflight>>
       ELSE LET diffInfos == {RepoDiffInfo(repo, s, created) : s \in shards}
            IN  /\ started' = createRepoDiffMap(started, repo)
                /\ leaves' = createRepoDiffMap(leaves, repo)
                /\ branches' = createRepoDiffMap(branches, repo)
                /\ finished' = InsertAll(createRepoDiffMap(finished, repo), diffInfos)
                /\ lock' = "w"
                /\ inflight' = [inflight EXCEPT !.w =
                                   [op |-> "CreateRepo", phase |-> "rpc",
                                    diffInfos |-> diffInfos]]
                /\ last' = [op |-> "CreateRepo", err |-> "running"]
    /\ puts' = Settle(puts, started')
    /\ UNCHANGED <<panicked, blockDiffs, prior>>

\* CreateRepo from wg.Wait() on: the RPCs have answered, the deferred Unlock runs.
CreateRepoReturn(failed) ==
    /\ ~panicked
    /\ inflight.w.op = "CreateRepo"
    /\ LET diffInfos == inflight.w.diffInfos
           sent == {x \in diffInfos : x.Diff.Shard \notin failed}
       IN  /\ blockDiffs' = CreateDiffs(blockDiffs, sent)
           /\ last' = [op |-> "CreateRepo", err |-> loopErr(diffInfos, sent)]
    /\ lock' = "free"
    /\ inflight' = [inflight EXCEPT !.w = NoCall]
    /\ UNCHANGED <<started, finished, leaves, branches, panicked, puts, calls, prior>>

\* DeleteRepo (driver.go:128-161) up to the fan-out: the views are cut under the
\* lock, the lock is released, the DeleteDiff goroutines are started.
DeleteRepoLocked(repo, shards) ==
    /\ Running /\ lock = "free" /\ inflight.w = NoCall
    /\ calls' = calls - 1
    /\ LET diffInfos == UNION {Range(commitMapOf(started, repo, s)) : s \in shards}
       IN  inflight' = [inflight EXCEPT !.w =
                           [op |-> "DeleteRepo", phase |-> "rpc", diffInfos |-> diffInfos]]
    /\ started' = deleteRepo(started, repo)
    /\ finished' = deleteRepo(finished, repo)
    /\ leaves' = deleteRepo(leaves, repo)
    /\ last' = [op |-> "DeleteRepo", err |-> "running"]
    /\ puts' = Settle(puts, started')
    /\ UNCHANGED <<branches, lock, panicked, blockDiffs, prior>>

DeleteRepoReturn(failed) ==
    /\ ~panicked
    /\ inflight.w.op = "DeleteRepo"
    /\ LET diffInfos == inflight.w.diffInfos
           sent == {x \in diffInfos : x.Diff.Shard \notin failed}
       IN  /\ blockDiffs' = DeleteDiffs(blockDiffs, {x.Diff : x \in sent})
           /\ last' = [op |-> "DeleteRepo", err |-> loopErr(diffInfos, sent)]
    /\ inflight' = [inflight EXCEPT !.w = NoCall]
    /\ UNCHANGED <<started, finished, leaves, branches, lock, panicked, puts, calls, prior>>

\* StartCommit (driver.go:163-213): d.lock.Lock() with a deferred Unlock.
StartCommitLock(repo, commitID, parentID, branch, ts, order) ==
    /\ Running /\ lock = "free" /\ inflight.w = NoCall
    /\ calls' = calls - 1
    /\ lock' = loopLock(order)
    /\ inflight' = [inflight EXCEPT !.w =
                       [op |-> "StartCommit", phase |-> "loop", repo |-> repo,
                        id |-> commitID, parent |-> parentID, branch |-> branch,
                        ts |-> ts, order |-> order, todo |-> order, err |-> ""]]
    /\ last' = [op |-> "StartCommit", repo |-> repo, id |-> commitID, parent |-> parentID,
                branch |-> branch, order |-> order, err |-> "running"]
    /\ UNCHANGED <<started, finished, leaves, branches, panicked, blockDiffs, puts, prior>>

\* One iteration of StartCommit's loop over shards.
StartCommitStep ==
    /\ ~panicked
    /\ inflight.w.op = "StartCommit" /\ inflight.w.todo # <<>> /\ inflight.w.err = ""
    /\ lock = loopLock(inflight.w.todo)
    /\ LET w == inflight.w
           st == StartCommitShard(
                    [err |-> "", started |-> started, leaves |-> leaves, branches |-> branches],
                    w.repo, w.id, w.parent, w.branch, w.ts, Head(w.todo))
       IN  /\ started' = st.started
           /\ leaves' = st.leaves
           /\ branches' = st.branches
           /\ inflight' = [inflight EXCEPT !.w.todo = Tail(w.todo), !.w.err = st.err]
           /\ lock' = loopLock(Tail(w.todo))
    /\ puts' = Settle(puts, started')
    /\ UNCHANGED <<finished, panicked, blockDiffs, calls, last, prior>>

\* StartCommit returns: after the last shard, or from the iteration that failed.
StartCommitUnlock ==
    /\ ~panicked
    /\ inflight.w.op = "StartCommit" /\ (inflight.w.todo = <<>> \/ inflight.w.err # "")
    /\ lock = loopLock(inflight.w.todo)
    /\ lock' = "free"
    /\ last' = [op |-> "StartCommit", repo |-> inflight.w.repo, id |-> inflight.w.id,
                parent |-> inflight.w.parent, branch |-> inflight.w.branch,
                order |-> inflight.w.order, err |-> inflight.w.err]
    /\ inflight' = [inflight EXCEPT !.w = NoCall]
    /\ UNCHANGED <<started, finished, leaves, branches, panicked, blockDiffs, puts, calls,
                   prior>>

\* FinishCommit (driver.go:215-258): the closure takes d.lock.Lock().
FinishCommitLock(repo, commit, ts, order) ==
    /\ Running /\ lock = "free" /\ inflight.w = NoCall
    /\ calls' = calls - 1
    /\ lock' = loopLock(order)
    /\ inflight' = [inflight EXCEPT !.w =
                       [op |-> "FinishCommit", phase |-> "loop", repo |-> repo,
                        commit |-> commit, ts |-> ts, order |-> order, todo |-> order,
                        diffInfos |-> {}, err |-> ""]]
    /\ last' = [op |-> "FinishCommit", err |-> "running"]
    /\ UNCHANGED <<started, finished, leaves, branches, panicked, blockDiffs, puts, prior>>

\* One iteration of the closure's loop over shards.
FinishCommitStep ==
    /\ ~panicked
    /\ inflight.w.op = "FinishCommit" /\ inflight.w.phase = "loop"
    /\ inflight.w.todo # <<>> /\ inflight.w.err = ""
    /\ lock = loopLock(inflight.w.todo)
    /\ LET w == inflight.w
           st == FinishCommitShard(
                    [err |-> "", started |-> started, finished |-> finished,
                     commit |-> w.commit, diffInfos |-> w.diffInfos],
                    w.repo, w.ts, Head(w.todo))
       IN  /\ started' = st.started
           /\ finished' = st.finished
           /\ inflight' = [inflight EXCEPT !.w.todo = Tail(w.todo), !.w.err = st.err,
                                           !.w.commit = st.commit,
                                           !.w.diffInfos = st.diffInfos]
           /\ lock' = loopLock(Tail(w.todo))
    /\ puts' = Settle(puts, started')
    /\ UNCHANGED <<leaves, branches, panicked, blockDiffs, calls, last, prior>>

\* The closure returns and its deferred Unlock runs: on an error FinishCommit
\* returns it, else the CreateDiff goroutines are started.
FinishCommitUnlock ==
    /\ ~panicked
    /\ inflight.w.op = "FinishCommit" /\ inflight.w.phase = "loop"
    /\ (inflight.w.todo = <<>> \/ inflight.w.err # "")
    /\ lock = loopLock(inflight.w.todo)
    /\ lock' = "free"
    /\ IF inflight.w.err # ""
       THEN /\ inflight' = [inflight EXCEPT !.w = NoCall]
            /\ last' = [op |-> "FinishCommit", err |-> inflight.w.err]
       ELSE /\ inflight' = [inflight EXCEPT !.w.phase = "rpc"]
            /\ UNCHANGED last
    /\ UNCHANGED <<started, finished, leaves, branches, panicked, blockDiffs, puts, calls,
                   prior>>

\* FinishCommit from wg.Wait() on.
FinishCommitReturn(failed) ==
    /\ ~panicked
    /\ inflight.w.op = "FinishCommit" /\ inflight.w.phase = "rpc"
    /\ LET diffInfos == inflight.w.diffInfos
           sent == {x \in diffInfos : x.Diff.Shard \notin failed}
       IN  /\ blockDiffs' = CreateDiffs(blockDiffs, sent)
           /\ last' = [op |-> "FinishCommit", err |-> loopErr(diffInfos, sent)]
    /\ inflight' = [inflight EXCEPT !.w = NoCall]
    /\ UNCHANGED <<started, finished, leaves, branches, lock, panicked, puts, calls, prior>>

\* One iteration of inspectCommit's loop (driver.go:559-584): the commit handle
\* as canonicalised so far, and the view that holds its diff on the shard.
inspectCommitShard(st, fin, br, repo, commit, shard) ==
    LET id == canonicalCommit(br, repo, commit, shard)
        diff == NewDiff(repo, id, shard)
    IN  [commit |-> id, shard |-> shard,
         CommitType |-> IF has(fin, diff) THEN "READ"
                        ELSE IF has(st, diff) THEN "WRITE" ELSE "not found"]

\* inspectCommit's loop run to its end in one state: the per-shard answers.
RECURSIVE inspectCommitLoop(_, _, _, _, _, _, _)
inspectCommitLoop(st, fin, br, repo, commit, order, obs) ==
    IF order = <<>> THEN obs
    ELSE LET one == inspectCommitShard(st, fin, br, repo, commit, Head(order))
         IN  IF one.CommitType = "not found" THEN Append(obs, one)
             ELSE inspectCommitLoop(st, fin, br, repo, one.commit, Tail(order),
                                    Append(obs, one))

\* A writer that has done some of the shards of its loop and not the others.
PartWay(w) ==
    /\ w.phase = "loop"
    /\ w.todo # <<>>
    /\ Len(w.todo) < Len(w.order)

\* InspectCommit (driver.go:260-264): d.lock.RLock() with a deferred RUnlock.
\* snap: what the loop would answer from the views as they are now; quiet: no
\* writer is part-way through its shards now.
InspectCommitRLock(repo, commit, order) ==
    /\ ~panicked /\ lock = "free" /\ inflight.r = NoCall
    /\ lock' = "r"
    /\ inflight' = [inflight EXCEPT !.r =
                       [op |-> "InspectCommit", phase |-> "loop", repo |-> repo,
                        commit |-> commit, order |-> order, todo |-> order, obs |-> <<>>,
                        snap |-> inspectCommitLoop(started, finished, branches, repo,
                                                   commit, order, <<>>),
                        quiet |-> ~PartWay(inflight.w), found |-> TRUE]]
    /\ UNCHANGED <<started, finished, leaves, branches, panicked, blockDiffs, puts, calls,
                   last, prior>>

InspectCommitStep ==
    /\ ~panicked
    /\ inflight.r.op = "InspectCommit" /\ inflight.r.todo # <<>> /\ inflight.r.found
    /\ LET r == inflight.r
           one == inspectCommitShard(started, finished, branches, r.repo, r.commit,
                                     Head(r.todo))
       IN  inflight' = [inflight EXCEPT !.r.todo = Tail(r.todo),
                                       !.r.commit = one.commit,
                                       !.r.obs = Append(r.obs, one),
                                       !.r.found = one.CommitType # "not found"]
    /\ UNCHANGED <<started, finished, leaves, branches, lock, panicked, blockDiffs, puts,
                   calls, last, prior>>

\* inspectCommit returns (the reduced CommitInfo, or commit not found) and the
\* deferred RUnlock runs.
InspectCommitRUnlock ==
    /\ ~panicked
    /\ inflight.r.op = "InspectCommit" /\ (inflight.r.todo = <<>> \/ ~inflight.r.found)
    /\ lock' = IF lock = "r" THEN "free" ELSE lock
    /\ last' = [op |-> "InspectCommit", order |-> inflight.r.order, obs |-> inflight.r.obs,
                snap |-> inflight.r.snap, quiet |-> inflight.r.quiet,
                err |-> IF inflight.r.found THEN "" ELSE "commit not found"]
    /\ inflight' = [inflight EXCEPT !.r = NoCall]
    /\ UNCHANGED <<started, finished, leaves, branches, panicked, blockDiffs, puts, calls,
                   prior>>

(***************************************************************************)
(* inspectCommit (driver.go:557-595) and ListCommit (driver.go:266-307)    *)
(***************************************************************************)
NewCommit(repo, id) == [Repo |-> repo, ID |-> id]

RECURSIVE SumSizeBytes(_)
SumSizeBytes(infos) ==
    IF infos = <<>> THEN 0 ELSE Head(infos).SizeBytes + SumSizeBytes(Tail(infos))

\* pfs.ReduceCommitInfos: one CommitInfo per commit id, the sizes added, WRITE as
\* soon as one shard is still open.
ReduceCommitInfos(commitInfos) ==
    LET ids == {commitInfos[i].Commit.ID : i \in DOMAIN commitInfos}
        of(id) == SelectSeq(commitInfos, LAMBDA c : c.Commit.ID = id)
    IN  {[Head(of(id)) EXCEPT
            !.SizeBytes = SumSizeBytes(of(id)),
            !.CommitType = IF \E i \in DOMAIN of(id) : of(id)[i].CommitType = "WRITE"
                           THEN "WRITE" ELSE @] : id \in ids}

\* inspectCommit's loop over shards: [err, infos].
RECURSIVE inspectCommitInfos(_, _, _, _, _, _, _)
inspectCommitInfos(st, fin, br, repo, commit, order, infos) ==
    IF order = <<>> THEN [err |-> "", infos |-> infos]
    ELSE LET one == inspectCommitShard(st, fin, br, repo, commit, Head(order))
             diff == NewDiff(repo, one.commit, Head(order))
             diffInfo == IF has(fin, diff) THEN get(fin, diff) ELSE get(st, diff)
         IN  IF one.CommitType = "not found"
             THEN [err |-> "commit not found", infos |-> infos]
             ELSE inspectCommitInfos(st, fin, br, repo, one.commit, Tail(order),
                     Append(infos,
                            [Commit |-> NewCommit(repo, one.commit),
                             CommitType |-> one.CommitType,
                             Branch |-> diffInfo.Branch,
                             ParentCommit |-> diffInfo.ParentCommit,
                             Started |-> diffInfo.Started,
                             Finished |-> diffInfo.Finished,
                             SizeBytes |-> diffInfo.SizeBytes]))

\* inspectCommit: [err, info]; info holds the one CommitInfo when err is "".
inspectCommit(st, fin, br, repo, commit, order) ==
    LET looped == inspectCommitInfos(st, fin, br, repo, commit, order, <<>>)
        commitInfo == ReduceCommitInfos(looped.infos)
    IN  IF looped.err # "" THEN [err |-> looped.err, info |-> {}]
        ELSE IF commitInfo = {} THEN [err |-> "commit not found", info |-> {}]
        ELSE IF Cardinality(commitInfo) > 1
        THEN [err |-> "multiple commitInfos", info |-> {}]
        ELSE [err |-> "", info |-> commitInfo]

\* ListCommit's breakCommitIDs as seeded from fromCommit: keyed by commit id.
breakCommitIDs(fromCommit) == {fromCommit[i].ID : i \in DOMAIN fromCommit}

\* The walk from one leaf: acc is [err, result, break].
RECURSIVE listCommitWalk(_, _, _, _, _, _, _)
listCommitWalk(st, fin, br, repo, commit, order, acc) ==
    IF commit = Nil \/ commit \in acc.break THEN acc
    ELSE LET inspected == inspectCommit(st, fin, br, repo, commit, order)
             seen == acc.break \cup {commit}
         IN  IF inspected.err # ""
             THEN [acc EXCEPT !.err = inspected.err, !.break = seen]
             ELSE LET commitInfo == CHOOSE x \in inspected.info : TRUE
                  IN  listCommitWalk(st, fin, br, repo, commitInfo.ParentCommit, order,
                                     [acc EXCEPT !.result = Append(@, commitInfo),
                                                 !.break = seen])

\* The loop over the leaves of one repo on the shard visited, in map order.
RECURSIVE listCommitLeaves(_, _, _, _, _, _, _)
listCommitLeaves(st, fin, br, repo, leafIDs, order, acc) ==
    IF leafIDs = <<>> \/ acc.err # "" THEN acc
    ELSE listCommitLeaves(st, fin, br, repo, Tail(leafIDs), order,
                          listCommitWalk(st, fin, br, repo, Head(leafIDs), order, acc))

\* The loop over repos.  rank gives the order in which a map yields its keys.
RECURSIVE listCommitRepos(_, _, _, _, _, _, _, _, _)
listCommitRepos(st, fin, lv, br, repos, order, shard, rank, acc) ==
    IF repos = <<>> \/ acc.err # "" THEN acc
    ELSE LET repo == Head(repos)
             keys == DOMAIN commitMapOf(lv, repo, shard)
             leafIDs == SelectSeq(rank, LAMBDA id : id \in keys)
         IN  IF repo \notin DOMAIN fin THEN [acc EXCEPT !.err = "repo not found"]
             ELSE listCommitRepos(st, fin, lv, br, Tail(repos), order, shard, rank,
                     listCommitLeaves(st, fin, br, repo, leafIDs, order, acc))

\* ListCommit: [err, result, break].
listCommit(st, fin, lv, br, repos, fromCommit, order, shard, rank) ==
    IF \E i \in DOMAIN fromCommit : fromCommit[i].Repo \notin Range(repos)
    THEN [err |-> "from a repo that isn't being listed", result |-> <<>>, break |-> {}]
    ELSE LET acc == listCommitRepos(st, fin, lv, br, repos, order, shard, rank,
                       [err |-> "", result |-> <<>>, break |-> breakCommitIDs(fromCommit)])
         IN  IF acc.err # "" THEN [acc EXCEPT !.result = <<>>] ELSE acc

\* ListCommit under the read lock.  order: the shards as the loops yield them
\* (the outer loop visits only the first); rank: the leaves likewise.
\* What a ListCommit call leaves in last: its arguments, its error and its result.
ListCommitReturn(repos, fromCommit, order, listed) ==
    [op |-> "ListCommit", repos |-> repos, fromCommit |-> fromCommit, order |-> order,
     err |-> listed.err, result |-> listed.result]

ListCommit(repos, fromCommit, order, rank) ==
    /\ ~panicked /\ lock = "free"
    /\ last' = ListCommitReturn(repos, fromCommit, order,
                   listCommit(started, finished, leaves, branches, repos, fromCommit,
                              order, Head(order), rank))
    /\ UNCHANGED <<started, finished, leaves, branches, lock, panicked, blockDiffs, puts,
                   calls, inflight, prior>>

(***************************************************************************)
(* ListBranch (driver.go:309-322) and the first statement of PutFile       *)
(* (driver.go:329), statement by statement: neither takes the driver lock,  *)
(* so their reads of the views run whatever the lock's state.  phase "read" *)
(* and "loop": the call is reading the views.                               *)
(***************************************************************************)
\* ListBranch enters its loop over d.branches[repo.Name][shard], for the first
\* shard the map of shards yields.
ListBranchCall(repo, order) ==
    /\ ~panicked /\ inflight.r = NoCall
    /\ inflight' = [inflight EXCEPT !.r =
                       [op |-> "ListBranch", phase |-> "loop", repo |-> repo,
                        order |-> order, visited |-> {}, result |-> <<>>, err |-> "",
                        raced |-> FALSE]]
    /\ UNCHANGED <<started, finished, leaves, branches, lock, panicked, blockDiffs, puts,
                   calls, last, prior>>

\* One iteration: a tip the map holds now is inspected over the views as they
\* are now.  raced: a writer was inside its loop over shards at that moment.
ListBranchStep ==
    /\ ~panicked
    /\ inflight.r.op = "ListBranch" /\ inflight.r.err = ""
    /\ LET r == inflight.r
           tips == commitMapOf(branches, r.repo, Head(r.order))
       IN  \E key \in (DOMAIN tips) \ r.visited :
              LET inspected == inspectCommit(started, finished, branches, r.repo,
                                             tips[key].Diff.ID, r.order)
              IN  inflight' = [inflight EXCEPT
                      !.r.visited = @ \cup {key},
                      !.r.err = inspected.err,
                      !.r.raced = @ \/ inflight.w.phase = "loop",
                      !.r.result = IF inspected.err # "" THEN <<>>
                                   ELSE Append(@, CHOOSE x \in inspected.info : TRUE)]
    /\ UNCHANGED <<started, finished, leaves, branches, lock, panicked, blockDiffs, puts,
                   calls, last, prior>>

\* ListBranch returns: the map yields no further tip, or an inspectCommit failed.
ListBranchReturn ==
    /\ ~panicked
    /\ inflight.r.op = "ListBranch"
    /\ \/ inflight.r.err # ""
       \/ DOMAIN commitMapOf(branches, inflight.r.repo, Head(inflight.r.order))
             \subseteq inflight.r.visited
    /\ last' = [op |-> "ListBranch", repo |-> inflight.r.repo, err |-> inflight.r.err,
                result |-> inflight.r.result, raced |-> inflight.r.raced]
    /\ inflight' = [inflight EXCEPT !.r = NoCall]
    /\ UNCHANGED <<started, finished, leaves, branches, lock, panicked, blockDiffs, puts,
                   calls, prior>>

\* PutFile is called: its first statement, file.Commit = d.canonicalCommit(...),
\* is about to read the branches view.
PutFileCall(repo, commit, shard) ==
    /\ ~panicked /\ inflight.r = NoCall
    /\ inflight' = [inflight EXCEPT !.r =
                       [op |-> "PutFile", phase |-> "read", repo |-> repo,
                        commit |-> commit, shard |-> shard]]
    /\ UNCHANGED <<started, finished, leaves, branches, lock, panicked, blockDiffs, puts,
                   calls, last, prior>>

\* The canonicalisation, then d.lock.RLock(): the call waits for the lock.
PutFileCanonical ==
    /\ ~panicked
    /\ inflight.r.op = "PutFile" /\ inflight.r.phase = "read"
    /\ inflight' = [inflight EXCEPT
           !.r.commit = canonicalCommit(branches, inflight.r.repo, @, inflight.r.shard),
           !.r.phase = "rlock"]
    /\ UNCHANGED <<started, finished, leaves, branches, lock, panicked, blockDiffs, puts,
                   calls, last, prior>>

\* The lookup in started between RLock and RUnlock (driver.go:330-338).
PutFileRLocked ==
    /\ ~panicked /\ lock = "free"
    /\ inflight.r.op = "PutFile" /\ inflight.r.phase = "rlock"
    /\ last' = [op |-> "PutFile", step |-> "lookup", repo |-> inflight.r.repo,
                id |-> inflight.r.commit, shard |-> inflight.r.shard,
                err |-> IF has(started, NewDiff(inflight.r.repo, inflight.r.commit,
                                                inflight.r.shard))
                        THEN "" ELSE "commit not found"]
    /\ inflight' = [inflight EXCEPT !.r = NoCall]
    /\ UNCHANGED <<started, finished, leaves, branches, lock, panicked, blockDiffs, puts,
                   calls, prior>>

(***************************************************************************)
(* inspectRepo (driver.go:523-545) and InspectRepo (driver.go:94-98)       *)
(***************************************************************************)
RECURSIVE SumDiffInfos(_)
SumDiffInfos(diffInfos) ==
    IF diffInfos = {} THEN 0
    ELSE LET x == CHOOSE y \in diffInfos : TRUE
         IN  x.SizeBytes + SumDiffInfos(diffInfos \ {x})

\* An inspectRepo that also counts the diffs of the open commits.
repoDiffInfosWithOpen(st, fin, repo, shard) ==
    Range(commitMapOf(fin, repo, shard)) \cup Range(commitMapOf(st, repo, shard))

\* The diffs inspectRepo visits on a shard: d.finished[repo.Name][shard].
repoDiffInfos(st, fin, repo, shard) == Range(commitMapOf(fin, repo, shard))

\* The loop over shards: [err, Created, SizeBytes].
RECURSIVE inspectRepoLoop(_, _, _, _, _)
inspectRepoLoop(st, fin, repo, order, result) ==
    IF order = <<>> THEN result
    ELSE IF Head(order) \notin DOMAIN fin[repo]
    THEN [result EXCEPT !.err = "repo not found"]
    ELSE LET diffInfos == repoDiffInfos(st, fin, repo, Head(order))
             created == {x.Finished : x \in {y \in diffInfos : y.Diff.ID = ""}}
         IN  inspectRepoLoop(st, fin, repo, Tail(order),
                 [result EXCEPT
                     !.Created = IF created = {} THEN @ ELSE CHOOSE t \in created : TRUE,
                     !.SizeBytes = @ + SumDiffInfos(diffInfos)])

inspectRepo(st, fin, repo, order) ==
    IF repo \notin DOMAIN fin
    THEN [err |-> "repo not found", Created |-> Nil, SizeBytes |-> 0]
    ELSE inspectRepoLoop(st, fin, repo, order, [err |-> "", Created |-> Nil, SizeBytes |-> 0])

\* InspectRepo: inspectRepo under the read lock.
InspectRepo(repo, order) ==
    /\ ~panicked /\ lock = "free"
    /\ last' = [op |-> "InspectRepo", repo |-> repo, order |-> order,
                repoInfo |-> inspectRepo(started, finished, repo, order)]
    /\ UNCHANGED <<started, finished, leaves, branches, lock, panicked, blockDiffs, puts,
                   calls, inflight, prior>>

(***************************************************************************)
(* fileReader (driver.go:708-763), the reader GetFile returns.  A byte is    *)
(* named by its block and its position in the block.  inflight.r holds the  *)
(* struct: blockRefs, index, offset, size, and the open block reader (open,  *)
(* rest: the bytes it has still to give); out is what Read has handed out.   *)
(***************************************************************************)
\* pfs.ByteRangeSize
ByteRangeSize(blockRef) == blockRef.Upper - blockRef.Lower

\* The bytes a BlockRef stands for.
BytesOf(blockRef) == [i \in 1..ByteRangeSize(blockRef) |-> <<blockRef.Block, blockRef.Lower + i - 1>>]

\* pfsutil.GetBlock(hash, offset, size): a reader over at most size bytes of the
\* block from offset on.
GetBlock(blockRefs, index, offset, size) ==
    LET bytes == BytesOf(blockRefs[index + 1])
        upper == IF offset + size < Len(bytes) THEN offset + size ELSE Len(bytes)
    IN  IF offset >= Len(bytes) THEN <<>> ELSE SubSeq(bytes, offset + 1, upper)

\* The loop of Read that passes over the blocks before offset: [index, offset].
\* blockRef is bound once, before the loop.
RECURSIVE skipBlocks(_, _, _)
skipBlocks(index, offset, blockRef) ==
    IF offset # 0 /\ offset > ByteRangeSize(blockRef)
    THEN skipBlocks(index + 1, offset - ByteRangeSize(blockRef), blockRef)
    ELSE [index |-> index, offset |-> offset]

newFileReader(blockRefs, offset, size) ==
    /\ Running /\ inflight.r = NoCall
    /\ calls' = calls - 1
    /\ inflight' = [inflight EXCEPT !.r =
                       [op |-> "GetFile", phase |-> "read", blockRefs |-> blockRefs,
                        index |-> 0, open |-> FALSE, rest |-> <<>>,
                        offset |-> offset, size |-> size,
                        from |-> offset, want |-> size, out |-> <<>>]]
    /\ last' = [op |-> "GetFile", err |-> ""]
    /\ UNCHANGED <<started, finished, leaves, branches, lock, panicked, blockDiffs, puts,
                   prior>>

\* One call of Read with a buffer of n bytes.  eofWithData: the block reader
\* reports io.EOF together with its last bytes, not on the call after.
Read(n, eofWithData) ==
    /\ ~panicked
    /\ inflight.r.op = "GetFile" /\ inflight.r.phase = "read"
    /\ LET r == inflight.r
           atEnd == ~r.open /\ r.index = Len(r.blockRefs)
           skipped == skipBlocks(r.index, r.offset, r.blockRefs[r.index + 1])
           outOfRange == ~r.open /\ ~atEnd /\ skipped.index >= Len(r.blockRefs)
           opened == IF r.open THEN r
                     ELSE [r EXCEPT !.open = TRUE,
                                    !.rest = GetBlock(r.blockRefs, skipped.index,
                                                      skipped.offset, r.size),
                                    !.offset = 0,
                                    !.index = skipped.index + 1]
           size == IF n < Len(opened.rest) THEN n ELSE Len(opened.rest)
           data == SubSeq(opened.rest, 1, size)
           rest == SubSeq(opened.rest, size + 1, Len(opened.rest))
           eof == rest = <<>> /\ (size = 0 \/ eofWithData)
           after == [opened EXCEPT !.rest = rest,
                                   !.open = ~eof,
                                   !.size = @ - size,
                                   !.out = @ \o data]
       IN  IF atEnd
           THEN /\ inflight' = [inflight EXCEPT !.r.phase = "eof"]
                /\ UNCHANGED panicked
           ELSE IF outOfRange
           THEN /\ inflight' = [inflight EXCEPT !.r.phase = "panic",
                                                !.r.index = skipped.index]
                /\ panicked' = TRUE
           ELSE /\ inflight' = [inflight EXCEPT !.r =
                                   [after EXCEPT !.phase = IF after.size = 0 THEN "eof"
                                                           ELSE "read"]]
                /\ UNCHANGED panicked
    /\ UNCHANGED <<started, finished, leaves, branches, lock, blockDiffs, puts, calls, last,
                   prior>>

\* fileReader.Close, after end-of-stream.
Close ==
    /\ ~panicked
    /\ inflight.r.op = "GetFile" /\ inflight.r.phase = "eof"
    /\ inflight' = [inflight EXCEPT !.r = NoCall]
    /\ last' = [op |-> "GetFile", err |-> "", out |-> inflight.r.out,
                from |-> inflight.r.from, want |-> inflight.r.want,
                blockRefs |-> inflight.r.blockRefs]
    /\ UNCHANGED <<started, finished, leaves, branches, lock, panicked, blockDiffs, puts,
                   calls, prior>>

(***************************************************************************)
(* Differ.IterateDiff (server/pfs/server/diff.go:19-87).  A source is the   *)
(* sequence of file infos its Iterate emits; a path is a number, so that    *)
(* ascending path order is ascending numbers.  The two producer goroutines  *)
(* feed the unbuffered channels aInfos and bInfos and close them at the end; *)
(* a channel is the sequence still to come, and a receive on the empty      *)
(* sequence is a receive on the closed channel.  inflight.w holds the third *)
(* goroutine: aFi, aOpen, bFi, bOpen, and cbs, the calls of cb so far.      *)
(***************************************************************************)
NewFileInfoV2(path, hash) == [Path |-> path, Hash |-> hash]

\* The nil *pfs.FileInfoV2.
NilFileInfo == NewFileInfoV2(0, "nil")

\* fi, open := <-infos
Recv(infos) ==
    IF infos = <<>> THEN [fi |-> NilFileInfo, open |-> FALSE, infos |-> <<>>]
    ELSE [fi |-> Head(infos), open |-> TRUE, infos |-> Tail(infos)]

equalFileInfos(aFi, bFi) == aFi.Hash = bFi.Hash

\* What the goroutine commented "iterate over b" sends on bInfos: it calls
\* d.a.Iterate.
iterateOverB(a, b) == a

\* IterateDiff starts its goroutines; the third receives its first pair.
IterateDiff(a, b) ==
    /\ Running /\ inflight.w = NoCall
    /\ calls' = calls - 1
    /\ LET first == Recv(a)
           second == Recv(iterateOverB(a, b))
       IN  inflight' = [inflight EXCEPT !.w =
               [op |-> "IterateDiff", phase |-> "merge", a |-> a, b |-> b,
                aInfos |-> first.infos, bInfos |-> second.infos,
                aFi |-> first.fi, aOpen |-> first.open,
                bFi |-> second.fi, bOpen |-> second.open, cbs |-> <<>>]]
    /\ last' = [op |-> "IterateDiff", err |-> "running"]
    /\ UNCHANGED <<started, finished, leaves, branches, lock, panicked, blockDiffs, puts,
                   prior>>

\* One turn of `for aOpen && bOpen`, or the exit from it.
IterateDiffMerge ==
    /\ inflight.w.op = "IterateDiff" /\ inflight.w.phase = "merge"
    /\ LET w == inflight.w
           nextA == Recv(w.aInfos)
           nextB == Recv(w.bInfos)
       IN  inflight' = [inflight EXCEPT !.w =
               IF ~(w.aOpen /\ w.bOpen) THEN [w EXCEPT !.phase = "rangeA"]
               ELSE IF w.aFi.Path < w.bFi.Path
               THEN [w EXCEPT !.cbs = Append(@, <<w.aFi, NilFileInfo>>),
                              !.aFi = nextA.fi, !.aOpen = nextA.open,
                              !.aInfos = nextA.infos]
               ELSE IF w.bFi.Path < w.aFi.Path
               THEN [w EXCEPT !.cbs = Append(@, <<NilFileInfo, w.bFi>>),
                              !.bFi = nextB.fi, !.bOpen = nextB.open,
                              !.bInfos = nextB.infos]
               ELSE [w EXCEPT !.cbs = IF equalFileInfos(w.aFi, w.bFi) THEN @
                                      ELSE Append(@, <<w.aFi, w.bFi>>),
                              !.aFi = nextA.fi, !.aOpen = nextA.open,
                              !.aInfos = nextA.infos,
                              !.bFi = nextB.fi, !.bOpen = nextB.open,
                              !.bInfos = nextB.infos]]
    /\ UNCHANGED <<started, finished, leaves, branches, lock, panicked, blockDiffs, puts,
                   calls, last, prior>>

\* One turn of `for aFi = range aInfos`, or its end on the closed channel.
IterateDiffRangeA ==
    /\ inflight.w.op = "IterateDiff" /\ inflight.w.phase = "rangeA"
    /\ LET w == inflight.w
           next == Recv(w.aInfos)
       IN  inflight' = [inflight EXCEPT !.w =
               IF ~next.open THEN [w EXCEPT !.phase = "rangeB"]
               ELSE [w EXCEPT !.aFi = next.fi, !.aInfos = next.infos,
                              !.cbs = Append(@, <<next.fi, NilFileInfo>>)]]
    /\ UNCHANGED <<started, finished, leaves, branches, lock, panicked, blockDiffs, puts,
                   calls, last, prior>>

\* One turn of `for bFi = range bInfos`, or its end on the closed channel.
IterateDiffRangeB ==
    /\ inflight.w.op = "IterateDiff" /\ inflight.w.phase = "rangeB"
    /\ LET w == inflight.w
           next == Recv(w.bInfos)
       IN  inflight' = [inflight EXCEPT !.w =
               IF ~next.open THEN [w EXCEPT !.phase = "wait"]
               ELSE [w EXCEPT !.bFi = next.fi, !.bInfos = next.infos,
                              !.cbs = Append(@, <<NilFileInfo, next.fi>>)]]
    /\ UNCHANGED <<started, finished, leaves, branches, lock, panicked, blockDiffs, puts,
                   calls, last, prior>>

\* eg.Wait() returns.
IterateDiffReturn ==
    /\ inflight.w.op = "IterateDiff" /\ inflight.w.phase = "wait"
    /\ last' = [op |-> "IterateDiff", err |-> "", a |-> inflight.w.a, b |-> inflight.w.b,
                cbs |-> inflight.w.cbs]
    /\ inflight' = [inflight EXCEPT !.w = NoCall]
    /\ UNCHANGED <<started, finished, leaves, branches, lock, panicked, blockDiffs, puts,
                   calls, prior>>

(***************************************************************************)
(* Specification                                                           *)
(***************************************************************************)
Handles == CommitIDs \cup BranchNames

Paths == {<<"a">>, <<"d", "a">>}

RefSeqs == {<<NewBlockRef("h1", 0, 1)>>,
            <<NewBlockRef("h2", 0, 2), NewBlockRef("h3", 0, 1)>>}

\* newDriver (driver.go:27-38): four empty views.
InitDriver ==
    /\ started = EmptyMap
    /\ finished = EmptyMap
    /\ leaves = EmptyMap
    /\ branches = EmptyMap
    /\ lock = "free"
    /\ panicked = FALSE
    /\ blockDiffs = {}
    /\ puts = [i \in 1..MaxPuts |-> Idle]
    /\ last = [op |-> "newDriver", err |-> ""]
    /\ inflight = [w |-> NoCall, r |-> NoCall]
    /\ prior = NoPrior

\* The commit graph: every operation on repos, commits and shards, over both
\* shards, with a block store that answers every RPC.
Init == InitDriver /\ calls = MaxCalls

Next ==
    \/ \E repo \in Repos, ts \in Timestamps, shards \in ShardSets :
          CreateRepo(repo, ts, shards, {})
    \/ \E repo \in Repos, shards \in ShardSets : DeleteRepo(repo, shards, {})
    \/ \E repo \in Repos, id \in CommitIDs, parent \in CommitIDs \cup {""},
          branch \in BranchNames \cup {""}, ts \in Timestamps, order \in ShardOrders :
          StartCommit(repo, id, parent, branch, ts, order)
    \/ \E repo \in Repos, commit \in Handles, ts \in Timestamps, order \in ShardOrders :
          FinishCommit(repo, commit, ts, order, {})
    \/ \E shard \in Shards : DeleteShard(shard)
    \/ \E shard \in Shards, diffInfo \in blockDiffs : AddShard(shard, diffInfo)
    \/ \E shard \in Shards : AddShardEmpty(shard)

Spec == Init /\ [][Next]_vars

\* File operations: concurrent PutFile calls against the commits of one shard.
FileShards == {0}

FilesInit == InitDriver /\ calls = MaxFileCalls

FilesNext ==
    \/ \E repo \in Repos, ts \in Timestamps : CreateRepo(repo, ts, FileShards, {})
    \/ \E repo \in Repos : DeleteRepo(repo, FileShards, {})
    \/ \E repo \in Repos, id \in CommitIDs, parent \in CommitIDs \cup {""}, ts \in Timestamps,
          shard \in FileShards :
          StartCommit(repo, id, parent, "", ts, <<shard>>)
    \/ \E repo \in Repos, commit \in CommitIDs, ts \in Timestamps, shard \in FileShards :
          FinishCommit(repo, commit, ts, <<shard>>, {})
    \/ \E repo \in Repos, commit \in CommitIDs, path \in Paths, blockRefs \in RefSeqs,
          shard \in FileShards :
          PutFile(repo, commit, shard, path, blockRefs, TRUE)
    \/ \E slot \in DOMAIN puts : PutFileApply(slot)

SpecFiles == FilesInit /\ [][FilesNext]_vars

\* The same file operations over runs long enough to write a path in a commit
\* and again in its child.
LineageInit == InitDriver /\ calls = MaxLineageCalls

SpecLineage == LineageInit /\ [][FilesNext]_vars

\* Recovery: commits are finished while the block store loses some of the
\* mirrored CreateDiff calls, the driver is replaced, and shards are re-added.
MaxRecoveryCalls == 5

\* The shards whose CreateDiff the block store refuses.
FailedSets == {{}, {0}}

RecoveryInit == InitDriver /\ calls = MaxRecoveryCalls

RecoveryNext ==
    \/ \E repo \in Repos, ts \in Timestamps, shards \in ShardSets :
          CreateRepo(repo, ts, shards, {})
    \/ \E repo \in Repos, id \in CommitIDs, parent \in CommitIDs \cup {""},
          ts \in Timestamps, order \in ShardOrders :
          StartCommit(repo, id, parent, "", ts, order)
    \/ \E repo \in Repos, commit \in CommitIDs, ts \in Timestamps, order \in ShardOrders,
          failed \in FailedSets :
          FinishCommit(repo, commit, ts, order, failed)
    \/ newDriver
    \/ \E shard \in Shards : DeleteShard(shard)
    \/ \E shard \in Shards, diffInfo \in blockDiffs : AddShard(shard, diffInfo)
    \/ \E shard \in Shards : AddShardEmpty(shard)

SpecRecovery == RecoveryInit /\ [][RecoveryNext]_vars

\* Reads: files are written one call at a time along a line of commits and
\* inspected, files and directories, at every commit.
MaxReadCalls == 8

ReadPaths == {<<"d", "a">>, <<"d", "b">>}

ReadRefSeqs == {<<NewBlockRef("h1", 0, 1)>>}

Blocks == {"h1", "h2", "h3"}

MatchAll == NewShard(ReadPaths \cup {Dir(p) : p \in ReadPaths} \cup {Root}, Blocks)

ReadInit == InitDriver /\ calls = MaxReadCalls

ReadNext ==
    \/ \E repo \in Repos, ts \in Timestamps : CreateRepo(repo, ts, FileShards, {})
    \/ \E repo \in Repos, id \in CommitIDs, parent \in CommitIDs \cup {""}, ts \in Timestamps,
          shard \in FileShards :
          StartCommit(repo, id, parent, "", ts, <<shard>>)
    \/ \E repo \in Repos, commit \in CommitIDs, ts \in Timestamps, shard \in FileShards :
          FinishCommit(repo, commit, ts, <<shard>>, {})
    \/ \E repo \in Repos, commit \in CommitIDs, path \in ReadPaths, blockRefs \in ReadRefSeqs,
          shard \in FileShards :
          FreeSlots = DOMAIN puts /\ PutFile(repo, commit, shard, path, blockRefs, TRUE)
    \/ \E slot \in DOMAIN puts : PutFileApply(slot)
    \/ \E repo \in Repos, commit \in CommitIDs, shard \in FileShards,
          path \in ReadPaths \cup {Dir(p) : p \in ReadPaths} :
          InspectFile(repo, commit, path, MatchAll, Nil, shard)

SpecRead == ReadInit /\ [][ReadNext]_vars

\* Reads along a chain: three commits, each started on the one before, so
\* that a path written in the first and the third is read across the second.
MaxChainCalls == 10

ChainCommitIDs == CommitIDs \cup {"c3"}

ChainStarts == {<<"c1", "">>, <<"c2", "c1">>, <<"c3", "c2">>}

ChainInit == InitDriver /\ calls = MaxChainCalls

ChainNext ==
    \/ \E repo \in Repos, ts \in Timestamps : CreateRepo(repo, ts, FileShards, {})
    \/ \E repo \in Repos, start \in ChainStarts, ts \in Timestamps, shard \in FileShards :
          StartCommit(repo, start[1], start[2], "", ts, <<shard>>)
    \/ \E repo \in Repos, commit \in ChainCommitIDs, ts \in Timestamps, shard \in FileShards :
          FinishCommit(repo, commit, ts, <<shard>>, {})
    \/ \E repo \in Repos, commit \in ChainCommitIDs, path \in ReadPaths,
          blockRefs \in ReadRefSeqs, shard \in FileShards :
          FreeSlots = DOMAIN puts /\ PutFile(repo, commit, shard, path, blockRefs, TRUE)
    \/ \E slot \in DOMAIN puts : PutFileApply(slot)
    \/ \E repo \in Repos, commit \in ChainCommitIDs, shard \in FileShards,
          path \in ReadPaths \cup {Dir(p) : p \in ReadPaths} :
          InspectFile(repo, commit, path, MatchAll, Nil, shard)

SpecChain == ChainInit /\ [][ChainNext]_vars

\* Locking: commits are created and finished over both shards while a reader
\* inspects them, every handler followed from lock to unlock.
MaxLockCalls == 4

LocksInit == InitDriver /\ calls = MaxLockCalls

LocksNext ==
    \/ \E repo \in Repos, ts \in Timestamps, shards \in ShardSets :
          CreateRepoLock(repo, ts, shards)
    \/ CreateRepoReturn({})
    \/ \E repo \in Repos, shards \in ShardSets : DeleteRepoLocked(repo, shards)
    \/ DeleteRepoReturn({})
    \/ \E repo \in Repos, id \in CommitIDs, ts \in Timestamps, order \in ShardOrders :
          StartCommitLock(repo, id, "", "", ts, order)
    \/ StartCommitStep
    \/ StartCommitUnlock
    \/ \E repo \in Repos, commit \in CommitIDs, ts \in Timestamps, order \in ShardOrders :
          FinishCommitLock(repo, commit, ts, order)
    \/ FinishCommitStep
    \/ FinishCommitUnlock
    \/ FinishCommitReturn({})
    \/ \E repo \in Repos, commit \in CommitIDs, order \in Orders(Shards) :
          InspectCommitRLock(repo, commit, order)
    \/ InspectCommitStep
    \/ InspectCommitRUnlock

SpecLocks == LocksInit /\ [][LocksNext]_vars

\* Listing: two repos whose commits share ids, a chain and a fork of three
\* commits on one shard, listed whole and from a commit.
MaxListCalls == 7

ListRepos == {"r", "q"}

ListStarts == {<<"r", "c1", "">>, <<"r", "c2", "c1">>, <<"r", "c3", "c2">>,
               <<"r", "c3", "c1">>, <<"q", "c1", "">>}

ListRepoSeqs == {<<"r">>, <<"r", "q">>, <<"q", "r">>}

ListFroms == {<<>>, <<NewCommit("r", "c2")>>, <<NewCommit("q", "c2")>>}

ListInit == InitDriver /\ calls = MaxListCalls

ListNext ==
    \/ \E repo \in ListRepos, ts \in Timestamps : CreateRepo(repo, ts, {0}, {})
    \/ \E start \in ListStarts, ts \in Timestamps :
          StartCommit(start[1], start[2], start[3], "", ts, <<0>>)
    \/ \E repo \in ListRepos, commit \in ChainCommitIDs, ts \in Timestamps :
          FinishCommit(repo, commit, ts, <<0>>, {})
    \/ \E repos \in ListRepoSeqs, fromCommit \in ListFroms,
          rank \in Orders(ChainCommitIDs) :
          ListCommit(repos, fromCommit, <<0>>, rank)

SpecList == ListInit /\ [][ListNext]_vars

\* Files and directories under one name: "d" is written as a file and, through
\* "d/a", as a directory, in one commit or in a commit and its child.
MaxMixedCalls == 8

MixedPaths == {<<"d">>, <<"d", "a">>}

MixedMatchAll == NewShard(MixedPaths \cup {Root}, Blocks)

MixedInit == InitDriver /\ calls = MaxMixedCalls

MixedNext ==
    \/ \E repo \in Repos, ts \in Timestamps : CreateRepo(repo, ts, FileShards, {})
    \/ \E repo \in Repos, start \in {<<"c1", "">>, <<"c2", "c1">>}, ts \in Timestamps,
          shard \in FileShards :
          StartCommit(repo, start[1], start[2], "", ts, <<shard>>)
    \/ \E repo \in Repos, commit \in CommitIDs, ts \in Timestamps, shard \in FileShards :
          FinishCommit(repo, commit, ts, <<shard>>, {})
    \/ \E repo \in Repos, commit \in CommitIDs, path \in MixedPaths,
          blockRefs \in ReadRefSeqs, shard \in FileShards :
          FreeSlots = DOMAIN puts /\ PutFile(repo, commit, shard, path, blockRefs, TRUE)
    \/ \E slot \in DOMAIN puts : PutFileApply(slot)
    \/ \E repo \in Repos, commit \in CommitIDs, shard \in FileShards, path \in MixedPaths :
          InspectFile(repo, commit, path, MixedMatchAll, Nil, shard)

SpecMixed == MixedInit /\ [][MixedNext]_vars

\* Reading: files of one to three blocks of one to three bytes, read from every
\* offset, for every size up to the length, through buffers of one or two bytes.
MaxReaderCalls == 1

MaxBlocks == 3

MaxBufLen == 2

WholeBlocks == {NewBlockRef("h1", 0, 1), NewBlockRef("h2", 0, 2), NewBlockRef("h3", 0, 3)}

ReaderRefSeqs == UNION {[1..n -> WholeBlocks] : n \in 1..MaxBlocks}

ReaderInit == InitDriver /\ calls = MaxReaderCalls

ReaderNext ==
    \/ \E blockRefs \in ReaderRefSeqs :
          \E offset \in 0..SizeOf(blockRefs), size \in 1..SizeOf(blockRefs) :
             newFileReader(blockRefs, offset, size)
    \/ \E n \in 1..MaxBufLen, eofWithData \in BOOLEAN : Read(n, eofWithData)
    \/ Close

SpecReader == ReaderInit /\ [][ReaderNext]_vars

\* Repo sizes: a repo over one or both shards, created and re-created at two
\* times, with a commit that is written to and finished shard by shard.
MaxRepoCalls == 7

CreatedAt == {"t1", "t2"}

RepoRefSeqs == {<<NewBlockRef("h1", 0, 1)>>, <<NewBlockRef("h2", 0, 2)>>}

RepoInit == InitDriver /\ calls = MaxRepoCalls

RepoNext ==
    \/ \E repo \in Repos, ts \in CreatedAt, shards \in ShardSets :
          CreateRepo(repo, ts, shards, {})
    \/ \E repo \in Repos, shards \in ShardSets : DeleteRepo(repo, shards, {})
    \/ \E repo \in Repos, ts \in Timestamps, order \in {<<0>>, <<0, 1>>} :
          StartCommit(repo, "c1", "", "", ts, order)
    \/ \E repo \in Repos, ts \in Timestamps, order \in {<<0>>, <<1>>, <<0, 1>>} :
          FinishCommit(repo, "c1", ts, order, {})
    \/ \E repo \in Repos, shard \in Shards, blockRefs \in RepoRefSeqs :
          FreeSlots = DOMAIN puts /\ PutFile(repo, "c1", shard, <<"a">>, blockRefs, TRUE)
    \/ \E slot \in DOMAIN puts : PutFileApply(slot)
    \/ \E repo \in Repos, order \in {<<0>>, <<0, 1>>, <<1, 0>>} : InspectRepo(repo, order)

SpecRepo == RepoInit /\ [][RepoNext]_vars

\* Reading from a commit: the chain c1 <- c2 <- c3 with one file, inspected
\* from each of its commits.
MaxFromCalls == 10

FromPaths == {<<"d", "a">>}

FromInit == InitDriver /\ calls = MaxFromCalls

FromNext ==
    \/ \E repo \in Repos, ts \in Timestamps : CreateRepo(repo, ts, FileShards, {})
    \/ \E repo \in Repos, start \in ChainStarts, ts \in Timestamps, shard \in FileShards :
          StartCommit(repo, start[1], start[2], "", ts, <<shard>>)
    \/ \E repo \in Repos, commit \in ChainCommitIDs, ts \in Timestamps, shard \in FileShards :
          FinishCommit(repo, commit, ts, <<shard>>, {})
    \/ \E repo \in Repos, commit \in ChainCommitIDs, path \in FromPaths,
          blockRefs \in ReadRefSeqs, shard \in FileShards :
          FreeSlots = DOMAIN puts /\ PutFile(repo, commit, shard, path, blockRefs, TRUE)
    \/ \E slot \in DOMAIN puts : PutFileApply(slot)
    \/ \E repo \in Repos, commit \in ChainCommitIDs, shard \in FileShards,
          path \in FromPaths, from \in ChainCommitIDs \cup {Nil} :
          InspectFile(repo, commit, path, MatchAll, from, shard)

SpecFrom == FromInit /\ [][FromNext]_vars

\* Unlocked readers: commits are started on a branch and finished over both
\* shards while ListBranch and the head of PutFile read the views.
MaxAccessCalls == 3

AccessInit == InitDriver /\ calls = MaxAccessCalls

AccessNext ==
    \/ \E repo \in Repos, ts \in Timestamps : CreateRepoLock(repo, ts, Shards)
    \/ CreateRepoReturn({})
    \/ \E repo \in Repos, id \in CommitIDs, branch \in BranchNames, ts \in Timestamps,
          order \in Orders(Shards) :
          StartCommitLock(repo, id, "", branch, ts, order)
    \/ StartCommitStep
    \/ StartCommitUnlock
    \/ \E repo \in Repos, commit \in Handles, ts \in Timestamps, order \in Orders(Shards) :
          FinishCommitLock(repo, commit, ts, order)
    \/ FinishCommitStep
    \/ FinishCommitUnlock
    \/ FinishCommitReturn({})
    \/ \E repo \in Repos, order \in Orders(Shards) : ListBranchCall(repo, order)
    \/ ListBranchStep
    \/ ListBranchReturn
    \/ \E repo \in Repos, commit \in BranchNames, shard \in Shards :
          PutFileCall(repo, commit, shard)
    \/ PutFileCanonical
    \/ PutFileRLocked

SpecAccess == AccessInit /\ [][AccessNext]_vars

\* Diffing: every pair of sources over three paths and two hashes, each source
\* in ascending path order.
MaxDifferCalls == 1

MaxPath == 3

Hashes == {"x", "y"}

\* The strictly ascending sequences of file infos over the paths 1..MaxPath.
Sources ==
    {s \in UNION {[1..n -> {NewFileInfoV2(p, h) : p \in 1..MaxPath, h \in Hashes}] :
                     n \in 0..MaxPath} :
        \A i \in 1..(Len(s) - 1) : s[i].Path < s[i + 1].Path}

DifferInit == InitDriver /\ calls = MaxDifferCalls

DifferNext ==
    \/ \E a \in Sources, b \in Sources : IterateDiff(a, b)
    \/ IterateDiffMerge
    \/ IterateDiffRangeA
    \/ IterateDiffRangeB
    \/ IterateDiffReturn

SpecDiffer == DifferInit /\ [][DifferNext]_vars

\* Branch names and commit ids drawn from one namespace: a branch may carry the
\* name "c1", which is also a commit id.
MaxInsertCalls == 4

InsertBranches == {"b", "c1"}

InsertInit == InitDriver /\ calls = MaxInsertCalls

InsertNext ==
    \/ \E repo \in Repos, ts \in Timestamps, shards \in ShardSets :
          CreateRepo(repo, ts, shards, {})
    \/ \E repo \in Repos, id \in CommitIDs, parent \in CommitIDs \cup {""},
          branch \in InsertBranches \cup {""}, ts \in Timestamps, order \in ShardOrders :
          StartCommit(repo, id, parent, branch, ts, order)
    \/ \E repo \in Repos, commit \in CommitIDs \cup InsertBranches, ts \in Timestamps,
          order \in ShardOrders :
          FinishCommit(repo, commit, ts, order, {})

SpecInsert == InsertInit /\ [][InsertNext]_vars

(***************************************************************************)
(* Properties                                                              *)
(***************************************************************************)
Keys(d, repo, shard) == DOMAIN commitMapOf(d, repo, shard)

\* The DiffInfos of a repo and shard, open and closed.
DiffInfos(repo, shard) ==
    Range(commitMapOf(started, repo, shard)) \cup Range(commitMapOf(finished, repo, shard))

\* The commits some diff of the repo and shard names as its parent.
Parents(repo, shard) == {d.ParentCommit : d \in DiffInfos(repo, shard)} \ {Nil}

\* C1: no (repo, shard, commit id) is a key of both started and finished.
StartedXorFinished ==
    \A repo \in Repos, shard \in Shards :
        Keys(started, repo, shard) \cap Keys(finished, repo, shard) = {}

\* C2: the keys of leaves are exactly the commits of started and finished (the
\* repo placeholder aside) that no diff of the same repo and shard names as parent.
LeavesAreChildless ==
    \A repo \in Repos, shard \in Shards :
        Keys(leaves, repo, shard) =
            ((Keys(started, repo, shard) \cup Keys(finished, repo, shard)) \ {""})
                \ Parents(repo, shard)

\* C3: a diff that enters started with a parent has that parent in finished, on
\* the same repo and shard, at that moment.
ParentFinishedAtStart ==
    [][\A repo \in Repos, shard \in Shards :
          \A id \in Keys(started', repo, shard) \ Keys(started, repo, shard) :
              LET d == started'[repo][shard][id]
              IN  d.ParentCommit # Nil =>
                      has(finished, NewDiff(repo, d.ParentCommit, shard))]_vars

\* The commits reached from the set S by one or more ParentCommit links.
RECURSIVE Ancestors(_, _, _, _)
Ancestors(repo, shard, S, fuel) ==
    LET up == {d.ParentCommit : d \in {x \in DiffInfos(repo, shard) : x.Diff.ID \in S}} \ {Nil}
    IN  IF fuel = 0 \/ up = {} THEN up
        ELSE up \cup Ancestors(repo, shard, up, fuel - 1)

\* C4: the ParentCommit links of a repo and shard have no cycle.
NoParentCycle ==
    \A repo \in Repos, shard \in Shards :
        \A d \in DiffInfos(repo, shard) :
            d.Diff.ID \notin Ancestors(repo, shard, {d.Diff.ID}, Cardinality(CommitIDs))

\* C5: every branch entry names a commit with a diff in started or in finished.
BranchTipsExist ==
    \A repo \in DOMAIN branches :
        \A shard \in DOMAIN branches[repo] :
            \A b \in DOMAIN branches[repo][shard] :
                LET tip == branches[repo][shard][b].Diff
                IN  has(started, tip) \/ has(finished, tip)

\* The nearest commit, from `commit` up the ParentCommit links, whose appends
\* hold the path; Nil if there is none.
RECURSIVE NearestWith(_, _, _, _, _)
NearestWith(repo, shard, commit, key, fuel) ==
    LET diff == NewDiff(repo, commit, shard)
        d == IF has(finished, diff) THEN get(finished, diff) ELSE get(started, diff)
    IN  IF commit = Nil \/ fuel = 0 \/ ~(has(finished, diff) \/ has(started, diff))
        THEN Nil
        ELSE IF key \in DOMAIN d.Appends THEN commit
        ELSE NearestWith(repo, shard, d.ParentCommit, key, fuel - 1)

\* C6: the LastRef of every append, of files and of directories, is the nearest
\* proper ancestor whose appends hold the path (none if no ancestor holds it), so
\* that the LastRef chain visits exactly those ancestors, nearest first.
LastRefIsNearest ==
    \A repo \in Repos, shard \in Shards :
        \A d \in DiffInfos(repo, shard) :
            \A key \in DOMAIN d.Appends :
                d.Appends[key].LastRef =
                    NearestWith(repo, shard, d.ParentCommit, key, Cardinality(CommitIDs))

\* C7: a diff in finished keeps its appends and its size, and a PutFile that
\* finds its commit gone from started when it has the write lock returns the
\* commit-not-found error and changes no diff.
FinishedIsSealed ==
    [][/\ \A repo \in Repos, shard \in Shards :
             \A id \in Keys(finished, repo, shard) \cap Keys(finished', repo, shard) :
                /\ finished'[repo][shard][id].Appends = finished[repo][shard][id].Appends
                /\ finished'[repo][shard][id].SizeBytes = finished[repo][shard][id].SizeBytes
       /\ (/\ last'.op = "PutFile"
           /\ last'.step = "apply"
           /\ ~has(started, NewDiff(last'.repo, last'.id, last'.shard)))
          => /\ last'.err = "commit not found"
             /\ started' = started
             /\ finished' = finished]_vars

PutFileAfterFinish ==
    /\ last.op = "PutFile"
    /\ last.step = "apply"
    /\ last.err = "commit not found"
    /\ has(finished, NewDiff(last.repo, last.id, last.shard))
    /\ get(finished, NewDiff(last.repo, last.id, last.shard)).Appends = EmptyMap

IsPrefix(a, b) == Len(a) <= Len(b) /\ SubSeq(b, 1, Len(a)) = a

IsSuffix(a, b) == Len(a) <= Len(b) /\ SubSeq(b, Len(b) - Len(a) + 1, Len(b)) = a

\* C8: a PutFile that succeeds appends its BlockRefs, in order, after the ones
\* the path already holds, and adds their byte ranges to SizeBytes; the append of
\* an open diff never loses a BlockRef.  Hence the append ends with the refs of
\* the calls that took the write lock while this call was in flight, each call's
\* refs contiguous and in lock order, followed by this call's refs.
PutsAreAppended ==
    [][/\ (last'.op = "PutFile" /\ last'.step = "apply" /\ last'.err = "")
          => LET diff == NewDiff(last'.repo, last'.id, last'.shard)
             IN  /\ has(started, diff) /\ has(started', diff)
                 /\ RefsAt(started', diff, last'.path)
                        = RefsAt(started, diff, last'.path) \o last'.refs
                 /\ IsSuffix(last'.during \o last'.refs, RefsAt(started', diff, last'.path))
                 /\ get(started', diff).SizeBytes
                        = get(started, diff).SizeBytes + SizeOf(last'.refs)
       /\ \A repo \in Repos, shard \in Shards :
             \A id \in Keys(started, repo, shard) \cap Keys(started', repo, shard) :
                /\ \A key \in DOMAIN started[repo][shard][id].Appends :
                      /\ key \in DOMAIN started'[repo][shard][id].Appends
                      /\ IsPrefix(started[repo][shard][id].Appends[key].BlockRefs,
                                  started'[repo][shard][id].Appends[key].BlockRefs)
                /\ started'[repo][shard][id].SizeBytes >= started[repo][shard][id].SizeBytes
      ]_vars

TwoPutsBothKept ==
    /\ last.op = "PutFile"
    /\ last.step = "apply"
    /\ last.err = ""
    /\ last.during # <<>>
    /\ last.during # last.refs
    /\ RefsAt(started, NewDiff(last.repo, last.id, last.shard), last.path)
           = last.during \o last.refs
    /\ get(started, NewDiff(last.repo, last.id, last.shard)).SizeBytes
           = SizeOf(last.during) + SizeOf(last.refs)

\* The branch has a tip on the shard and the tip is not in finished.
TipUnfinished(repo, branch, shard) ==
    /\ has(branches, NewDiff(repo, branch, shard))
    /\ ~has(finished, get(branches, NewDiff(repo, branch, shard)).Diff)

\* The new state holds nothing for the commit id on the shard that the old
\* state did not hold, and the branch still has the tip it had.
NothingAdded(repo, id, branch, shard) ==
    /\ id \in Keys(started', repo, shard) => id \in Keys(started, repo, shard)
    /\ id \in Keys(leaves', repo, shard) => id \in Keys(leaves, repo, shard)
    /\ commitMapOf(branches', repo, shard) = commitMapOf(branches, repo, shard)

\* C9 as claimed: a StartCommit on a branch whose tip is unfinished on a
\* requested shard returns an error and adds nothing for the new commit on any
\* shard.
UnfinishedTipAddsNothing ==
    [][(/\ last'.op = "StartCommit"
        /\ last'.branch # ""
        /\ \E shard \in Range(last'.order) :
              TipUnfinished(last'.repo, last'.branch, shard))
       => /\ last'.err # ""
          /\ \A shard \in Shards :
                NothingAdded(last'.repo, last'.id, last'.branch, shard)]_vars

\* C9 as amended: the call returns an error and every requested shard whose tip
\* is unfinished is left as it was; shards visited before the failing one keep
\* the new diff.
UnfinishedTipShardUntouched ==
    [][(/\ last'.op = "StartCommit"
        /\ last'.branch # ""
        /\ \E shard \in Range(last'.order) :
              TipUnfinished(last'.repo, last'.branch, shard))
       => /\ last'.err # ""
          /\ \A shard \in Range(last'.order) :
                TipUnfinished(last'.repo, last'.branch, shard)
                => /\ commitMapOf(started', last'.repo, shard)
                          = commitMapOf(started, last'.repo, shard)
                   /\ commitMapOf(leaves', last'.repo, shard)
                          = commitMapOf(leaves, last'.repo, shard)
                   /\ commitMapOf(branches', last'.repo, shard)
                          = commitMapOf(branches, last'.repo, shard)]_vars

StartedOnOneShardOnly ==
    /\ last.op = "StartCommit"
    /\ last.branch # ""
    /\ last.err = "branch has unfinished commit"
    /\ \E s1, s2 \in Range(last.order) :
          /\ has(started, NewDiff(last.repo, last.id, s1))
          /\ has(branches, NewDiff(last.repo, last.branch, s1))
          /\ get(branches, NewDiff(last.repo, last.branch, s1)).Diff.ID = last.id
          /\ TipUnfinished(last.repo, last.branch, s2)
          /\ ~has(started, NewDiff(last.repo, last.id, s2))

\* C10: after a successful StartCommit on a branch, on every requested shard the
\* branch names the new commit, whose parent is the tip the branch had, or else
\* the parentID argument (none if that is empty).
BranchAdvances ==
    [][(last'.op = "StartCommit" /\ last'.err = "" /\ last'.branch # "")
       => \A shard \in Range(last'.order) :
             LET diff == NewDiff(last'.repo, last'.id, shard)
                 tipDiff == NewDiff(last'.repo, last'.branch, shard)
             IN  /\ has(branches', tipDiff)
                 /\ get(branches', tipDiff).Diff = diff
                 /\ has(started', diff)
                 /\ get(started', diff).ParentCommit =
                        IF has(branches, tipDiff) THEN get(branches, tipDiff).Diff.ID
                        ELSE IF last'.parent # "" THEN last'.parent
                        ELSE Nil]_vars

TipBecameParent ==
    /\ last.op = "StartCommit"
    /\ last.err = ""
    /\ last.branch # ""
    /\ last.parent = ""
    /\ \A shard \in Range(last.order) :
          /\ get(branches, NewDiff(last.repo, last.branch, shard)).Diff.ID = last.id
          /\ get(started, NewDiff(last.repo, last.id, shard)).ParentCommit \in CommitIDs
    /\ Len(last.order) = 2

\* The diffs a FinishCommit call for a commit id names, one per requested shard.
Requested(repo, commit, order) == {NewDiff(repo, commit, shard) : shard \in Range(order)}

\* C11: when FinishCommit's in-memory step succeeds and a mirrored CreateDiff
\* fails, the call returns an error, and still every requested diff is in
\* finished with the Finished timestamp of the call and is gone from started.
FinishKeptOnRpcError ==
    [][\A repo \in Repos, commit \in CommitIDs, ts \in Timestamps, order \in ShardOrders,
          failed \in FailedSets :
          (/\ last'.op = "FinishCommit"
           /\ failed \cap Range(order) # {}
           /\ \A diff \in Requested(repo, commit, order) : has(started, diff)
           /\ FinishCommit(repo, commit, ts, order, failed)
           /\ last'.err \in {"", "rpc error"})
          => /\ last'.err # ""
             /\ \A diff \in Requested(repo, commit, order) :
                    /\ has(finished', diff)
                    /\ get(finished', diff).Finished = ts
                    /\ ~has(started', diff)]_vars

\* A FinishCommit returned the error of a failed CreateDiff, and a diff it
\* finished is in finished but not in the block store.
FinishedButNotMirrored ==
    /\ last.op = "FinishCommit"
    /\ last.err = "rpc error"
    /\ \E repo \in Repos, shard \in Shards :
          \E d \in Range(commitMapOf(finished, repo, shard)) :
              /\ d.Diff.ID # ""
              /\ d \notin blockDiffs

\* C12: FinishCommit for a commit whose requested diffs are all in finished
\* already (and none in started) is accepted, mirrors those diffs to the block
\* store again, and leaves the four views as they are.
FinishResubmitAccepted ==
    [][\A repo \in Repos, commit \in CommitIDs, ts \in Timestamps, order \in ShardOrders :
          (/\ last'.op = "FinishCommit"
           /\ \A diff \in Requested(repo, commit, order) :
                  has(finished, diff) /\ ~has(started, diff)
           /\ FinishCommit(repo, commit, ts, order, {}))
          => /\ last'.err = ""
             /\ views' = views
             /\ \A diff \in Requested(repo, commit, order) :
                    get(finished, diff) \in blockDiffs']_vars

\* The diff the driver answers reads of a commit from: finished, else started.
DiffOf(repo, shard, commit) == getDiffInfo(started, finished, NewDiff(repo, commit, shard))

\* The BlockRefs held for a path by a commit and its ancestors along the
\* ParentCommit links, oldest commit first, in write order within a commit.
RECURSIVE RefsUpTo(_, _, _, _, _)
RefsUpTo(repo, shard, commit, key, seen) ==
    IF commit = Nil \/ commit \in seen \/ ~DiffOf(repo, shard, commit).ok THEN <<>>
    ELSE LET d == DiffOf(repo, shard, commit).diffInfo
         IN  RefsUpTo(repo, shard, d.ParentCommit, key, seen \cup {commit})
                 \o (IF key \in DOMAIN d.Appends THEN d.Appends[key].BlockRefs ELSE <<>>)

RECURSIVE ChildrenUpTo(_, _, _, _, _)
ChildrenUpTo(repo, shard, commit, key, seen) ==
    IF commit = Nil \/ commit \in seen \/ ~DiffOf(repo, shard, commit).ok THEN {}
    ELSE LET d == DiffOf(repo, shard, commit).diffInfo
         IN  ChildrenUpTo(repo, shard, d.ParentCommit, key, seen \cup {commit})
                 \cup (IF key \in DOMAIN d.Appends THEN d.Appends[key].Children ELSE {})

\* C14: InspectFile of a directory returns as Children, each once, the child
\* paths recorded under it in the commit and in every ancestor of the commit.
InspectListsAllChildren ==
    (/\ last.op = "InspectFile"
     /\ last.from = Nil
     /\ last.filterShard = MatchAll
     /\ RefsUpTo(last.repo, last.shard, last.id, Clean(last.path), {}) = <<>>
     /\ ChildrenUpTo(last.repo, last.shard, last.id, Clean(last.path), {}) # {})
    => LET paths == ChildrenUpTo(last.repo, last.shard, last.id, Clean(last.path), {})
       IN  /\ last.fileInfo.res = "ok"
           /\ last.fileInfo.FileType = "DIR"
           /\ {f.Path : f \in last.fileInfo.Children} = paths
           /\ Cardinality(last.fileInfo.Children) = Cardinality(paths)

\* The DiffInfos the block store streams for a shard, the repo placeholders aside.
Streamed(shard) == {d \in ListDiff(blockDiffs, shard) : d.Diff.ID # ""}

\* The streamed diffs a streamed diff reaches by one or more parent links.
RECURSIVE StreamedAbove(_, _, _)
StreamedAbove(shard, S, fuel) ==
    LET up == {p \in Streamed(shard) :
                  \E d \in S : d.Diff.Repo = p.Diff.Repo /\ d.ParentCommit = p.Diff.ID}
    IN  IF fuel = 0 \/ up = {} THEN up ELSE up \cup StreamedAbove(shard, up, fuel - 1)

\* Some streamed diff names a parent for which the stream has no diff.
DanglingParent(shard) ==
    \E d \in Streamed(shard) :
        /\ d.ParentCommit # Nil
        /\ \A p \in Streamed(shard) :
              ~(p.Diff.Repo = d.Diff.Repo /\ p.Diff.ID = d.ParentCommit)

\* The parent links of the stream form a forest: every parent is streamed and
\* no diff is above itself.
StreamIsForest(shard) ==
    /\ ~DanglingParent(shard)
    /\ \A d \in Streamed(shard) :
          d \notin StreamedAbove(shard, {d}, Cardinality(Streamed(shard)))

\* Every streamed diff is in finished with its parent link, and leaves holds
\* exactly the streamed commits that no streamed diff names as parent.
Rebuilt(shard) ==
    /\ \A d \in Streamed(shard) :
          /\ has(finished, d.Diff)
          /\ get(finished, d.Diff).ParentCommit = d.ParentCommit
    /\ \A repo \in Repos :
          Keys(leaves, repo, shard) \ {""} =
              {d.Diff.ID : d \in {x \in Streamed(shard) : x.Diff.Repo = repo}}
                  \ {d.ParentCommit : d \in {x \in Streamed(shard) : x.Diff.Repo = repo}}

\* C15: AddShard on a fresh driver, over a stream whose parent links form a
\* forest, ends with every streamed diff in finished, parent link intact, and
\* with leaves holding exactly the streamed commits that no streamed diff names
\* as parent.
AddShardRebuilds ==
    [][\A shard \in Shards :
          (/\ last'.op = "AddShard"
           /\ last'.shard = shard
           /\ views = <<EmptyMap, EmptyMap, EmptyMap, EmptyMap>>
           /\ StreamIsForest(shard))
          => Rebuilt(shard)']_vars

\* C16: AddShard returns the missing-parent error exactly when some streamed
\* diff names a parent for which no diff is streamed.
AddShardFailsIffDangling ==
    last.op = "AddShard"
    => (last.err = "diffInfos reference a parent that doesn't exist"
            <=> DanglingParent(last.shard))

\* The commit maps of a view, empty layers aside.
Content(view) ==
    [repo \in Repos |-> [shard \in Shards |-> commitMapOf(view, repo, shard)]]

\* The shards for which the replaced driver held a diff.
OwnedShards ==
    {shard \in Shards : \E repo \in Repos : Keys(prior.views[2], repo, shard) # {}}

\* The replaced driver had no open commit, and the block store holds exactly
\* the DiffInfos of its finished view.
PriorMirrored ==
    /\ prior.live
    /\ \A repo \in Repos, shard \in Shards : Keys(prior.views[1], repo, shard) = {}
    /\ blockDiffs = UNION {Range(commitMapOf(prior.views[2], repo, shard)) :
                              repo \in Repos, shard \in Shards}

\* C17: a fresh driver that ran AddShard for every shard the old driver owned,
\* against a block store holding every DiffInfo of the old driver, all of them
\* finished, has the same four views as the old driver.
RoundTripRestoresViews ==
    (/\ PriorMirrored
     /\ last.op = "AddShard"
     /\ OwnedShards # {}
     /\ OwnedShards \subseteq prior.added)
    => /\ DOMAIN finished = DOMAIN prior.views[2]
       /\ \A i \in 1..4 : Content(views[i]) = Content(prior.views[i])

\* C18: DeleteShard and AddShard return, and leave the driver lock free.
ShardCallsReleaseLock ==
    last.op \in {"DeleteShard", "AddShard"} => (last.err # "blocked" /\ lock = "free")

\* C19: no handler has a block-store RPC in flight while it holds the driver
\* lock.  (A PutFile between its upload and its write lock holds no lock.)
RpcOutsideLock == inflight.w.phase = "rpc" => lock # "w"

\* C20: what a reader returns for the shards of a commit is what the views held
\* at one instant, and at that instant no StartCommit or FinishCommit was between
\* the first and the last shard of its loop.
ReadsSeeWholeCommits ==
    last.op = "InspectCommit" => (last.obs = last.snap /\ last.quiet)

\* A reader ran while a FinishCommit over both shards was in flight, and found
\* the commit finished on both.
ReadDuringFinish ==
    /\ last.op = "InspectCommit"
    /\ inflight.w.op = "FinishCommit"
    /\ Len(inflight.w.order) = 2
    /\ Len(last.obs) = 2
    /\ \A i \in 1..2 : last.obs[i].CommitType = "READ"

\* The commits of a repo on a shard, open or finished.
CommitsOf(repo, shard) ==
    (Keys(started, repo, shard) \cup Keys(finished, repo, shard)) \ {""}

\* The commits a backward walk from the commit passes before it reaches a
\* commit of stop or runs out of parents.
RECURSIVE WalkFrom(_, _, _, _, _)
WalkFrom(repo, shard, commit, stop, seen) ==
    IF commit = Nil \/ commit \in stop \/ commit \in seen
       \/ ~getDiffInfo(started, finished, NewDiff(repo, commit, shard)).ok
    THEN {}
    ELSE {commit} \cup WalkFrom(repo, shard, DiffOf(repo, shard, commit).diffInfo.ParentCommit,
                                stop, seen \cup {commit})

ResultIDs(result) == {result[i].Commit : i \in DOMAIN result}

\* The finished chain c1 <- c2 <- c3 of repo r on shard 0.
FinishedChain ==
    /\ \A c \in {"c1", "c2", "c3"} : has(finished, NewDiff("r", c, 0))
    /\ get(finished, NewDiff("r", "c1", 0)).ParentCommit = Nil
    /\ get(finished, NewDiff("r", "c2", 0)).ParentCommit = "c1"
    /\ get(finished, NewDiff("r", "c3", 0)).ParentCommit = "c2"

\* C21: ListCommit fails when a fromCommit belongs to a repo that is not listed;
\* otherwise it returns no commit of fromCommits, every commit it returns is
\* reached by a backward walk from a leaf that meets no fromCommit on the way,
\* and on the finished chain c1 <- c2 <- c3 ListCommit([r],[c2],{0}) returns
\* exactly [c3].
ListCommitStopsAtFrom ==
    last.op = "ListCommit" =>
        LET from == Range(last.fromCommit)
            fromIDs == {c.ID : c \in from}
            shard == Head(last.order)
        IN  /\ (\E c \in from : c.Repo \notin Range(last.repos)) => last.err # ""
            /\ last.err = "" =>
                  /\ ResultIDs(last.result) \cap from = {}
                  /\ \A c \in ResultIDs(last.result) :
                        \E leaf \in Keys(leaves, c.Repo, shard) :
                           c.ID \in WalkFrom(c.Repo, shard, leaf, fromIDs, {})
            /\ (/\ FinishedChain
                /\ last.repos = <<"r">>
                /\ last.fromCommit = <<NewCommit("r", "c2")>>)
               => (/\ last.err = ""
                   /\ Len(last.result) = 1
                   /\ last.result[1].Commit = NewCommit("r", "c3"))

\* C28: with fromCommits empty, ListCommit over repos that exist returns one
\* CommitInfo for each commit of each listed repo: none twice, none left out.
ListCommitListsEachOnce ==
    (/\ last.op = "ListCommit"
     /\ last.fromCommit = <<>>
     /\ Range(last.repos) \subseteq DOMAIN finished)
    => /\ last.err = ""
       /\ \A i, j \in DOMAIN last.result :
             last.result[i].Commit = last.result[j].Commit => i = j
       /\ ResultIDs(last.result) =
             UNION {{NewCommit(repo, id) : id \in CommitsOf(repo, Head(last.order))} :
                    repo \in Range(last.repos)}

\* The appends a path has in a commit and in its ancestors by ParentCommit.
RECURSIVE AppendsUpTo(_, _, _, _, _)
AppendsUpTo(repo, shard, commit, key, seen) ==
    IF commit = Nil \/ commit \in seen \/ ~DiffOf(repo, shard, commit).ok THEN {}
    ELSE LET d == DiffOf(repo, shard, commit).diffInfo
         IN  (IF key \in DOMAIN d.Appends THEN {d.Appends[key]} ELSE {})
             \cup AppendsUpTo(repo, shard, d.ParentCommit, key, seen \cup {commit})

\* C22: when the lineage of the inspected commit records the path with BlockRefs
\* and with Children, in one commit or in two, InspectFile reports the mixed dir
\* and regular file error.
InspectReportsMixed ==
    (/\ last.op = "InspectFile"
     /\ last.from = Nil
     /\ LET appends == AppendsUpTo(last.repo, last.shard, last.id, Clean(last.path), {})
        IN  /\ \E a \in appends : a.BlockRefs # <<>>
            /\ \E a \in appends : a.Children # {})
    => last.fileInfo.res = "mixed"

\* The bytes of a file: its BlockRefs' byte ranges one after the other.
RECURSIVE Concat(_)
Concat(blockRefs) ==
    IF blockRefs = <<>> THEN <<>> ELSE BytesOf(Head(blockRefs)) \o Concat(Tail(blockRefs))

\* The bytes [offset, min(offset + size, total)) of a file.
Window(blockRefs, offset, size) ==
    LET bytes == Concat(blockRefs)
        upper == IF offset + size < Len(bytes) THEN offset + size ELSE Len(bytes)
    IN  SubSeq(bytes, offset + 1, upper)

\* C23: the reader never indexes past the end of its BlockRefs, hands out at
\* most size bytes, and at end-of-stream has handed out exactly the bytes
\* [offset, min(offset + size, total)) of the file.
ReaderYieldsWindow ==
    inflight.r.op = "GetFile" =>
        LET r == inflight.r IN
        /\ r.phase # "panic"
        /\ r.index <= Len(r.blockRefs)
        /\ Len(r.out) <= r.want
        /\ r.phase = "eof" => r.out = Window(r.blockRefs, r.from, r.want)

\* C24: a read leaves the four views as they are, and an InspectFile that
\* follows an InspectFile of the same file with nothing in between returns the
\* same FileInfo, the Children list included.
ReadsChangeNothing ==
    [][(last'.op \in {"InspectFile", "ListCommit", "InspectCommit"} /\ last' # last)
       => /\ views' = views
          /\ (/\ last.op = "InspectFile"
              /\ last'.op = "InspectFile"
              /\ <<last'.repo, last'.id, last'.path, last'.shard, last'.from,
                    last'.filterShard>>
                 = <<last.repo, last.id, last.path, last.shard, last.from,
                     last.filterShard>>)
             => /\ last'.fileInfo = last.fileInfo
                /\ last'.children = last.children]_vars

\* The finished diffs of a repo on a set of shards.
FinishedOn(repo, shards) ==
    UNION {Range(commitMapOf(finished, repo, shard)) : shard \in shards}

\* The shards a repo has its placeholder diff on.
CreatedOn(repo) ==
    {shard \in Shards : has(finished, NewDiff(repo, "", shard))}

\* C25: CreateRepo(r, t0, S) stamps t0 on the placeholder of every shard of S,
\* the stamp stays while the repo lives, and InspectRepo(r, S) returns it as
\* Created together with the sum of SizeBytes over the finished diffs of r on S,
\* the diffs of open commits left out.
InspectRepoSumsFinished ==
    [][/\ \A repo \in Repos, created \in CreatedAt, shards \in ShardSets :
            (CreateRepo(repo, created, shards, {}) /\ last'.err = "")
            => \A shard \in shards :
                  get(finished', NewDiff(repo, "", shard)).Finished = created
       /\ \A repo \in Repos, shard \in Shards :
            (has(finished, NewDiff(repo, "", shard)) /\ last'.op # "DeleteRepo")
            => /\ has(finished', NewDiff(repo, "", shard))
               /\ get(finished', NewDiff(repo, "", shard)).Finished
                  = get(finished, NewDiff(repo, "", shard)).Finished
       /\ (last'.op = "InspectRepo" /\ Range(last'.order) = CreatedOn(last'.repo))
          => /\ last'.repoInfo.err = ""
             /\ last'.repoInfo.SizeBytes
                = SumDiffInfos(FinishedOn(last'.repo, Range(last'.order)))
             /\ \A shard \in Range(last'.order) :
                   last'.repoInfo.Created
                   = get(finished, NewDiff(last'.repo, "", shard)).Finished]_vars

\* InspectRepo over both shards returned the size of the shard the commit is
\* finished on, while the other shard holds the commit open with bytes in it.
InspectedRepoWithOpenCommit ==
    /\ last.op = "InspectRepo"
    /\ Range(last.order) = Shards
    /\ last.repoInfo.err = ""
    /\ last.repoInfo.Created = "t2"
    /\ last.repoInfo.SizeBytes > 0
    /\ \E shard \in Shards :
          /\ has(started, NewDiff(last.repo, "c1", shard))
          /\ get(started, NewDiff(last.repo, "c1", shard)).SizeBytes > 0

\* The commits above a commit on its lineage: its parent, the parent's parent, ...
ProperAncestors(repo, shard, commit) ==
    IF DiffOf(repo, shard, commit).ok
    THEN WalkFrom(repo, shard, DiffOf(repo, shard, commit).diffInfo.ParentCommit, {}, {})
         \ {commit}
    ELSE {}

\* C26: an InspectFile from a proper ancestor of the inspected commit returns
\* the BlockRefs, the size and the children of the commits strictly newer than
\* from only, nothing of from or of its ancestors.
InspectStopsAtFrom ==
    (/\ last.op = "InspectFile"
     /\ last.from # Nil
     /\ last.filterShard = MatchAll
     /\ last.from \in ProperAncestors(last.repo, last.shard, last.id)
     /\ last.fileInfo.res = "ok")
    => LET refs == RefsUpTo(last.repo, last.shard, last.id, Clean(last.path), {last.from})
       IN  /\ last.fileInfo.blockRefs = refs
           /\ last.fileInfo.SizeBytes = SizeOf(refs)
           /\ last.fileInfo.Children \subseteq
                 ChildrenUpTo(last.repo, last.shard, last.id, Clean(last.path), {last.from})

\* C27: a call that is reading the views holds the driver lock, and a call that
\* is writing them holds it in write mode.
ViewsAccessedUnderLock ==
    /\ inflight.r.phase \in {"read", "loop"} => lock = "r"
    /\ inflight.w.phase = "loop" => lock = "w"

\* The file info a source has at a path, or nil.
InfoAt(source, path) ==
    IF \E i \in DOMAIN source : source[i].Path = path
    THEN source[CHOOSE i \in DOMAIN source : source[i].Path = path]
    ELSE NilFileInfo

\* The calls of cb that are due for the paths from path on, in path order.
RECURSIVE DueFrom(_, _, _)
DueFrom(a, b, path) ==
    IF path > MaxPath THEN <<>>
    ELSE LET aFi == InfoAt(a, path)
             bFi == InfoAt(b, path)
         IN  (IF aFi = bFi \/ (aFi # NilFileInfo /\ bFi # NilFileInfo /\ aFi.Hash = bFi.Hash)
              THEN <<>> ELSE <<<<aFi, bFi>>>>)
             \o DueFrom(a, b, path + 1)

\* C29: IterateDiff returns, having called cb once for each path at which the
\* sources differ and for no other, in ascending path order, with the file info
\* of each side or nil.
IterateDiffCallsBack ==
    (last.op = "IterateDiff" /\ last.err = "") => last.cbs = DueFrom(last.a, last.b, 1)

\* The calls of insert the handlers make from the current state, each as
\* [d, entry, branch]: StartCommit's insert into branches (after the pop of the
\* tip) and into started, on the first shard of its loop, and FinishCommit's
\* insert into finished.
InsertCalls ==
    LET starts ==
            {<<repo, id, parent, branch, shard>> \in
                Repos \X CommitIDs \X (CommitIDs \cup {""}) \X (InsertBranches \cup {""})
                      \X Shards :
                LET branchDiff == NewDiff(repo, branch, shard)
                    hasTip == branch # "" /\ has(branches, branchDiff)
                IN  hasTip => /\ parent = "" \/ get(branches, branchDiff).Diff.ID = parent
                              /\ tipFinished(finished, get(branches, branchDiff).Diff)}
        afterPop(a) ==
            IF has(branches, NewDiff(a[1], a[4], a[5]))
            THEN pop(branches, NewDiff(a[1], a[4], a[5])) ELSE branches
        diffInfoOf(a) ==
            NewDiffInfo(a[1], a[2], a[5], "t1", parentOf(branches, a[1], a[3], a[4], a[5]),
                        a[4])
    IN  {[d |-> afterPop(a), entry |-> Header(diffInfoOf(a)), branch |-> TRUE] :
            a \in {x \in starts : x[4] # ""}}
        \cup {[d |-> started, entry |-> diffInfoOf(a), branch |-> FALSE] :
                 a \in {x \in starts :
                           x[4] # "" => insert(afterPop(x), Header(diffInfoOf(x)), TRUE).err = ""}}
        \cup {[d |-> finished, entry |-> [get(started, NewDiff(repo, id, shard))
                                            EXCEPT !.Finished = "t1"], branch |-> FALSE] :
                 <<repo, id, shard>> \in
                    {x \in Repos \X CommitIDs \X Shards : has(started, NewDiff(x[1], x[2], x[3]))}}

\* C30: an insert fails exactly when the repo layer is absent or the key it is
\* about to write (the branch name with the branch flag, the commit id without)
\* is already a key of that repo and shard; a failed insert leaves the map as
\* it was.
InsertRejectsOwnKey ==
    \A c \in InsertCalls :
        LET r == insert(c.d, c.entry, c.branch)
            diff == c.entry.Diff
            key == IF c.branch THEN c.entry.Branch ELSE diff.ID
        IN  /\ r.err # "" <=> \/ diff.Repo \notin DOMAIN c.d
                              \/ key \in DOMAIN commitMapOf(c.d, diff.Repo, diff.Shard)
            /\ r.err # "" => r.map = c.d

\* C31: a FinishCommit that returns the commit-not-found error leaves started
\* and finished as they were before the call and issues no CreateDiff.
FinishNotFoundMovesNothing ==
    [][(last'.op = "FinishCommit" /\ last'.err = "commit not found")
          => /\ started' = started
             /\ finished' = finished
             /\ blockDiffs' = blockDiffs]_vars

RECURSIVE RangeSum(_, _)
RangeSum(blockRefs, i) ==
    IF i > Len(blockRefs) THEN 0
    ELSE (blockRefs[i].Upper - blockRefs[i].Lower) + RangeSum(blockRefs, i + 1)

\* The bytes of the BlockRefs held under the given keys of a table of appends.
RECURSIVE AppendBytes(_, _)
AppendBytes(appends, keys) ==
    IF keys = {} THEN 0
    ELSE LET key == CHOOSE k \in keys : TRUE
         IN  RangeSum(appends[key].BlockRefs, 1) + AppendBytes(appends, keys \ {key})

\* C32: the SizeBytes of every diff, open or finished, is the sum of
\* Upper - Lower over the BlockRefs of all its appends.
SizeBytesIsSumOfRanges ==
    \A repo \in Repos, shard \in Shards :
        \A d \in DiffInfos(repo, shard) :
            d.SizeBytes = AppendBytes(d.Appends, DOMAIN d.Appends)

\* A diff written by two PutFile calls: refs under two paths, one of them
\* holding more than one ref, four bytes in all.
DiffWithSeveralAppends ==
    \E repo \in Repos, shard \in Shards :
        \E d \in DiffInfos(repo, shard) :
            /\ Cardinality({k \in DOMAIN d.Appends : d.Appends[k].BlockRefs # <<>>}) >= 2
            /\ \E k \in DOMAIN d.Appends : Len(d.Appends[k].BlockRefs) >= 2
            /\ d.SizeBytes = 4

\* The calls of lastRef a PutFile would make from the current state: on the
\* parent of an open diff, for a path the diff has no append for yet.
LastRefCalls ==
    {<<d.Diff.Repo, d.ParentCommit, path, d.Diff.Shard>> :
        <<d, path>> \in
            {x \in (UNION {Range(commitMapOf(started, repo, shard)) :
                             repo \in Repos, shard \in FileShards}) \X ReadPaths :
                /\ x[1].ParentCommit # Nil
                /\ Clean(x[2]) \notin DOMAIN addDirs(x[1], x[2]).appends}}

\* C33: the ancestry walks end.  inspectFile returns a result or an error for
\* every commit, path and from; lastRef, as PutFile calls it, returns without
\* reading a diff that finished does not hold.
WalksTerminate ==
    /\ \A repo \in Repos, commit \in CommitIDs, shard \in FileShards,
          path \in ReadPaths \cup {Dir(p) : p \in ReadPaths}, from \in CommitIDs \cup {Nil} :
          inspectFile(started, finished, repo, commit, path, MatchAll, shard, from).res
              # "hang"
    /\ \A c \in LastRefCalls : lastRef(finished, c[1], c[2], c[3], c[4]).res = "ok"
====
